---- MODULE Spec2Model ----
(***************************************************************************)
(* Hearts rules engine of psousa50/hearts-ai.                              *)
(*                                                                         *)
(* Two implementations of HeartsGame are modelled side by side:            *)
(*   "core" : src/game-core/src/game.rs                                    *)
(*   "sim"  : src/game-simulation/src/game.rs                              *)
(* A game is stepped one played card at a time (one iteration of the loop  *)
(* of play_trick), then one step resolves the trick, then one step builds  *)
(* the GameResult.                                                         *)
(*                                                                         *)
(* The deck is scaled: RanksPerSuit ranks of each of the four suits (the   *)
(* source has 13, ranks 2..=14).  The ranks kept always include the Two    *)
(* and the Queen, so the Two of Clubs and the Queen of Spades exist.  The  *)
(* number of tricks of a game scales with it (the source plays 13 tricks   *)
(* = 52 / 4 cards per hand).                                               *)
(***************************************************************************)
EXTENDS Integers, Sequences, FiniteSets, TLC

\* ------------------------------------------------------------------ bounds
\* ranks per suit in the modelled deck (13 in the source)
RanksPerSuit == 3
\* number of distinct shuffles (deck orders) a game may start from
NumShuffles == 32

\* number of distinct seeds passed to Deck::new(Some(seed))
NumSeeds == 4
\* number of Deck objects built side by side
MaxDecks == 2
\* number of calls of deal on one Deck
MaxDeals == 2

\* largest num_games passed to generate_with_same_deck
MaxGames == 6

\* ------------------------------------------------------- program constants
NumPlayers == 4
TwoRank == 2
QueenRank == 12
HeartScore == 1
QueenOfSpadesScore == 13
MinRank == 2
MaxRank == 14
ReuseCycle == 4
ManyCardsOut == 7

\* get_valid_moves is called at most MaxCalls times on the same game and hand
MaxCalls == 2

\* the final scores a filtered game is given range over 0 .. MaxScore
MaxScore == 6

None == "None"

Seats == 0 .. (NumPlayers - 1)

\* ['S', 'H', 'D', 'C'] of Deck::new, in that order
SuitOrder == <<"S", "H", "D", "C">>
Suits == {"S", "H", "D", "C"}

\* char codes: derive(Ord) on Card compares suit (a char) first, then rank
SuitCode == [s \in Suits |->
               CASE s = "C" -> 67 [] s = "D" -> 68 [] s = "H" -> 72 [] s = "S" -> 83]

\* the order in which ranks are admitted to the scaled deck
RankPool == <<2, 12, 14, 13, 3, 11, 4, 10, 5, 9, 6, 8, 7>>
Ranks == {RankPool[k] : k \in 1 .. RanksPerSuit}
AllRanks == MinRank .. MaxRank

Card(s, r) == [suit |-> s, rank |-> r]

\* ------------------------------------------------------------------- Card
is_hearts(c) == c.suit = "H"

is_queen_of_spades(c) == c.suit = "S" /\ c.rank = QueenRank

is_two_of_clubs(c) == c.suit = "C" /\ c.rank = TwoRank

\* faulty variant: the Queen of Spades is left out
is_penalty_hearts_only(c) == is_hearts(c)

is_penalty(c) == is_hearts(c) \/ is_queen_of_spades(c)

score(c) == IF is_hearts(c) THEN HeartScore
            ELSE IF is_queen_of_spades(c) THEN QueenOfSpadesScore
            ELSE 0

\* derive(PartialOrd, Ord) on Card {suit, rank}: lexicographic
CardLess(a, b) ==
    \/ SuitCode[a.suit] < SuitCode[b.suit]
    \/ a.suit = b.suit /\ a.rank < b.rank

\* ------------------------------------------------------------ sequences
Range(s) == {s[k] : k \in 1 .. Len(s)}

RECURSIVE SumSeq(_)
SumSeq(s) == IF s = <<>> THEN 0 ELSE Head(s) + SumSeq(Tail(s))

RECURSIVE Insert(_, _)
Insert(c, s) ==
    IF s = <<>> THEN <<c>>
    ELSE IF CardLess(c, Head(s)) THEN <<c>> \o s
    ELSE <<Head(s)>> \o Insert(c, Tail(s))

\* hand.sort()
RECURSIVE SortCards(_)
SortCards(s) == IF s = <<>> THEN <<>> ELSE Insert(Head(s), SortCards(Tail(s)))

Swap(s, a, b) == [s EXCEPT ![a] = s[b], ![b] = s[a]]

\* ------------------------------------------------------------------- Deck
\* (2..=14) restricted to the ranks of the scaled deck, ascending
RankSeq == SelectSeq([k \in 1 .. (MaxRank - MinRank + 1) |-> k + MinRank - 1],
                     LAMBDA r : r \in Ranks)

\* the cards of Deck::new before the shuffle: suits in SuitOrder, ranks ascending
NewCards ==
    [k \in 1 .. (Len(SuitOrder) * Len(RankSeq)) |->
        Card(SuitOrder[((k - 1) \div Len(RankSeq)) + 1],
             RankSeq[((k - 1) % Len(RankSeq)) + 1])]

DeckCards == Range(NewCards)

\* the random source of the shuffle: a linear congruential stream
NextRandom(x) == (x * 37 + 11) % 1009

\* slice.shuffle(rng): for i in (1..len).rev() { swap(i, rng.gen_range(0..=i)) }
RECURSIVE ShuffleFrom(_, _, _)
ShuffleFrom(cards, k, x) ==
    IF k <= 1 THEN cards
    ELSE ShuffleFrom(Swap(cards, k, (NextRandom(x) % k) + 1), k - 1, NextRandom(x))

Shuffle(cards, seed) == ShuffleFrom(cards, Len(cards), seed)

\* Deck::new: the cards in construction order, shuffled
DeckNew(seed) == Shuffle(NewCards, seed)

\* faulty variant: the hands are left in deal order, not sorted
Deal_unsorted(cards, num_players) ==
    [p \in 0 .. (num_players - 1) |->
        SelectSeq(cards, LAMBDA c :
            \E k \in 1 .. Len(cards) : cards[k] = c /\ (k - 1) % num_players = p)]

\* Deck::deal: card i goes to hand i % num_players, then every hand is sorted
Deal(cards, num_players) ==
    [p \in 0 .. (num_players - 1) |->
        SortCards(SelectSeq(cards, LAMBDA c :
            \E k \in 1 .. Len(cards) : cards[k] = c /\ (k - 1) % num_players = p))]

\* ---------------------------------------------------------------- state
VARIABLES
    impl,            \* which HeartsGame is running: "core" or "sim"
    hands,           \* the hands as dealt (let hands = deck.deal(4))
    players,         \* self.players: seat -> [hand, score]
    hearts_broken,   \* self.hearts_broken
    current_leader,  \* self.current_leader
    tricks,          \* self.tricks
    trick_cards,     \* play_trick: trick_cards / cards_and_players
    lead_suit,       \* play_trick: lead_suit (None until the first card)
    current_player,  \* play_trick (core): current_player
    i,               \* play_trick: loop index
    scores,          \* play_game (core): local scores
    game_tricks,     \* play_game (core): local tricks
    trick_count,     \* play_game: iterations of the trick loop completed
    result,          \* the GameResult returned by play_game, None before
    pc,              \* "play_trick" | "finish" | "done" | "panic" | "call" | ...
    call,            \* a direct call of a pure function: arguments and return value
    current_trick,   \* an in-progress Trick (models.rs): slots per seat and leader
    decks            \* the Deck objects built by direct calls of Deck::new

vars == <<impl, hands, players, hearts_broken, current_leader, tricks, trick_cards,
          lead_suit, current_player, i, scores, game_tricks, trick_count, result,
          pc, call, current_trick, decks>>

game_vars == <<impl, hands, players, hearts_broken, current_leader, tricks,
               trick_cards, lead_suit, current_player, i, scores, game_tricks,
               trick_count, result, pc>>

\* for _ in 0..13: one trick per card of a hand
TricksPerGame == RanksPerSuit

\* ---------------------------------------------------- legal-move helpers
\* faulty variant: the filter on the led suit is forgotten
must_follow_suit_unfiltered(hand, suit) == hand

must_follow_suit(hand, suit) == SelectSeq(hand, LAMBDA c : c.suit = suit)

avoid_hearts(hand) ==
    LET non_hearts == SelectSeq(hand, LAMBDA c : c.suit # "H")
    IN  IF non_hearts = <<>> THEN hand ELSE non_hearts

\* faulty variant: the fallback to the whole hand is forgotten
avoid_penalties_no_fallback(hand) == SelectSeq(hand, LAMBDA c : ~is_penalty(c))

\* faulty variant: penalty cards are not filtered out
avoid_penalties_unfiltered(hand) == hand

avoid_penalties(hand) ==
    LET safe_cards == SelectSeq(hand, LAMBDA c : ~is_penalty(c))
    IN  IF safe_cards = <<>> THEN hand ELSE safe_cards

get_two_of_clubs(hand) ==
    SelectSeq(hand, LAMBDA c : c.suit = "C" /\ c.rank = TwoRank)

\* game-core: HeartsGame::get_valid_moves(&self, hand, lead_suit, is_first_card)
GetValidMovesCore(self_tricks, self_hearts_broken, hand, suit, is_first_card) ==
    IF is_first_card /\ self_tricks = <<>> /\ get_two_of_clubs(hand) # <<>>
    THEN get_two_of_clubs(hand)
    ELSE IF suit # None /\ must_follow_suit(hand, suit) # <<>>
    THEN must_follow_suit(hand, suit)
    ELSE IF self_tricks = <<>>
    THEN avoid_penalties(hand)
    ELSE IF ~self_hearts_broken /\ avoid_hearts(hand) # <<>>
    THEN avoid_hearts(hand)
    ELSE hand

\* game-simulation: HeartsGame::get_valid_moves(&self, hand, lead_suit, is_first_card)
GetValidMovesSim(self_tricks, self_hearts_broken, hand, suit, is_first_card) ==
    IF is_first_card /\ self_tricks = <<>> /\ get_two_of_clubs(hand) # <<>>
    THEN get_two_of_clubs(hand)
    ELSE IF suit # None /\ must_follow_suit(hand, suit) # <<>>
    THEN must_follow_suit(hand, suit)
    ELSE IF is_first_card
    THEN (IF ~self_hearts_broken THEN avoid_hearts(hand) ELSE hand)
    ELSE IF self_tricks = <<>>
    THEN avoid_penalties(hand)
    ELSE hand

\* --------------------------------------------------------------- players
\* RandomStrategy::choose_card / Player::play_card: any element of valid_moves
ChooseCard(valid_moves) == Range(valid_moves)

\* faulty variant: the played card stays in the hand
Retain_keeps_card(hand, chosen_card) == hand

\* faulty variant: the predicate of retain is inverted
Retain_inverted(hand, chosen_card) == SelectSeq(hand, LAMBDA c : c = chosen_card)

\* self.hand.retain(|c| *c != chosen_card)
Retain(hand, chosen_card) == SelectSeq(hand, LAMBDA c : c # chosen_card)

\* faulty variant: seat 0 always starts
find_starting_player_seat0(ps) == 0

\* for (i, player) in players.iter().enumerate(): the first player holding the Two of
\* Clubs, 0 when none of the players holds it
find_starting_player(ps) ==
    IF \E p \in DOMAIN ps : \E k \in 1 .. Len(ps[p].hand) : is_two_of_clubs(ps[p].hand[k])
    THEN CHOOSE p \in DOMAIN ps :
            /\ \E k \in 1 .. Len(ps[p].hand) : is_two_of_clubs(ps[p].hand[k])
            /\ \A q \in DOMAIN ps : q < p =>
                   ~\E k \in 1 .. Len(ps[q].hand) : is_two_of_clubs(ps[q].hand[k])
    ELSE 0

\* ----------------------------------------------------------- trick engine
\* iter.max_by_key(rank): the last element among those of maximal rank
RECURSIVE MaxByRank(_, _)
MaxByRank(best, rest) ==
    IF rest = <<>> THEN best
    ELSE MaxByRank(IF Head(rest).card.rank >= best.card.rank THEN Head(rest) ELSE best,
                   Tail(rest))

\* faulty variant: the highest rank wins whatever its suit
determine_trick_winner_any_suit(cards, suit) ==
    MaxByRank(Head(cards), Tail(cards)).player_index

determine_trick_winner(cards, suit) ==
    LET in_suit == SelectSeq(cards, LAMBDA tc : tc.card.suit = suit)
    IN  MaxByRank(Head(in_suit), Tail(in_suit)).player_index

\* faulty variant: the Queen of Spades branch tests the wrong suit
TrickPointsCore_wrong_queen(cards) ==
    SumSeq([k \in 1 .. Len(cards) |->
        IF cards[k].card.suit = "H" THEN HeartScore
        ELSE IF cards[k].card.suit = "C" /\ cards[k].card.rank = QueenRank
        THEN QueenOfSpadesScore
        ELSE 0])

\* faulty variant: the points of the first card are left out
TrickPointsCore_skip_first(cards) ==
    SumSeq([k \in 1 .. (Len(cards) - 1) |->
        IF cards[k + 1].card.suit = "H" THEN HeartScore
        ELSE IF cards[k + 1].card.suit = "S" /\ cards[k + 1].card.rank = QueenRank
        THEN QueenOfSpadesScore
        ELSE 0])

\* game-core play_trick: the points summed inline
TrickPointsCore(cards) ==
    SumSeq([k \in 1 .. Len(cards) |->
        IF cards[k].card.suit = "H" THEN HeartScore
        ELSE IF cards[k].card.suit = "S" /\ cards[k].card.rank = QueenRank
        THEN QueenOfSpadesScore
        ELSE 0])

\* game-simulation: calculate_trick_score
calculate_trick_score(cards) ==
    SumSeq([k \in 1 .. Len(cards) |-> score(cards[k].card)])

\* faulty variant: the last index of minimal score
MinByScore_last(sc) ==
    CHOOSE p \in Seats :
        /\ \A q \in Seats : sc[p] <= sc[q]
        /\ \A q \in Seats : q > p => sc[q] > sc[p]

\* iter.enumerate().min_by_key(score): the first index of minimal score
MinByScore(sc) ==
    CHOOSE p \in Seats :
        /\ \A q \in Seats : sc[p] <= sc[q]
        /\ \A q \in Seats : q < p => sc[q] > sc[p]

\* ------------------------------------------------------------------ Init
NoCall == [op |-> None, done |-> FALSE]

\* Option<Card>::None in a slot of a Trick
NoCard == [suit |-> None, rank |-> 0]

\* Trick::new(): four empty slots, first_player_index 0
TrickNew == [cards |-> [p \in Seats |-> NoCard], first_player_index |-> 0]

\* HeartsGame::new / new_with_strategies: shuffle, deal to four players, find the
\* holder of the Two of Clubs
NewGame(which, seed) ==
    LET dealt == Deal(DeckNew(seed), NumPlayers)
        ps == [p \in Seats |-> [hand |-> dealt[p], score |-> 0]]
    IN  /\ impl = which
        /\ hands = dealt
        /\ players = ps
        /\ hearts_broken = FALSE
        /\ current_leader = find_starting_player(ps)
        /\ tricks = <<>>
        /\ trick_cards = <<>>
        /\ lead_suit = None
        /\ current_player = find_starting_player(ps)
        /\ i = 0
        /\ scores = [p \in Seats |-> 0]
        /\ game_tricks = <<>>
        /\ trick_count = 0
        /\ result = None
        /\ pc = "play_trick"

Init ==
    /\ \E which \in {"core", "sim"} : \E seed \in 1 .. NumShuffles : NewGame(which, seed)
    /\ call = NoCall
    /\ current_trick = TrickNew
    /\ decks = <<>>

\* --------------------------------------------------------------- game-core
\* the legal moves play_trick computes for the seat about to play
ValidMovesCore ==
    GetValidMovesCore(tricks, hearts_broken, players[current_player].hand, lead_suit,
                      i = 0 /\ trick_cards = <<>>)

\* play_trick, one iteration of `for i in 0..4`
CorePlayCard ==
    /\ impl = "core" /\ pc = "play_trick" /\ i < NumPlayers
    /\ \E played_card \in ChooseCard(ValidMovesCore) :
        /\ players' = [players EXCEPT
                          ![current_player].hand = Retain(@, played_card)]
        /\ hearts_broken' = (hearts_broken \/ played_card.suit = "H")
        /\ lead_suit' = IF lead_suit = None THEN played_card.suit ELSE lead_suit
        /\ trick_cards' = Append(trick_cards,
                                 [card |-> played_card, player_index |-> current_player])
    /\ current_player' = (current_player + 1) % NumPlayers
    /\ i' = i + 1
    /\ UNCHANGED <<impl, hands, current_leader, tricks, scores, game_tricks,
                   trick_count, result, pc, call, current_trick, decks>>

\* faulty variant: self.current_leader is not set to the winner
CoreResolveTrick_keep_leader ==
    /\ impl = "core" /\ pc = "play_trick" /\ i = NumPlayers
    /\ LET winner == determine_trick_winner(trick_cards, lead_suit)
           trick == [cards |-> trick_cards, winner |-> winner,
                     points |-> TrickPointsCore(trick_cards)]
       IN  /\ current_leader' = current_leader
           /\ scores' = [scores EXCEPT ![trick.winner] = @ + trick.points]
           /\ game_tricks' = Append(game_tricks, trick)
           /\ current_player' = current_leader
    /\ trick_count' = trick_count + 1
    /\ pc' = IF trick_count + 1 = TricksPerGame THEN "finish" ELSE "play_trick"
    /\ trick_cards' = <<>>
    /\ lead_suit' = None
    /\ i' = 0
    /\ UNCHANGED <<impl, hands, players, hearts_broken, tricks, result, call, current_trick, decks>>

\* play_trick after the loop (winner, leader, points), then play_game's loop body:
\* the score and the trick are recorded in play_game's locals
CoreResolveTrick ==
    /\ impl = "core" /\ pc = "play_trick" /\ i = NumPlayers
    /\ LET winner == determine_trick_winner(trick_cards, lead_suit)
           trick == [cards |-> trick_cards, winner |-> winner,
                     points |-> TrickPointsCore(trick_cards)]
       IN  /\ current_leader' = winner
           /\ scores' = [scores EXCEPT ![trick.winner] = @ + trick.points]
           /\ game_tricks' = Append(game_tricks, trick)
           /\ current_player' = winner
    /\ trick_count' = trick_count + 1
    /\ pc' = IF trick_count + 1 = TricksPerGame THEN "finish" ELSE "play_trick"
    /\ trick_cards' = <<>>
    /\ lead_suit' = None
    /\ i' = 0
    /\ UNCHANGED <<impl, hands, players, hearts_broken, tricks, result, call, current_trick, decks>>

\* play_game after the loop: the GameResult
CoreFinish ==
    /\ impl = "core" /\ pc = "finish"
    /\ result' = [scores |-> scores, tricks |-> game_tricks,
                  winner |-> MinByScore(scores)]
    /\ pc' = "done"
    /\ UNCHANGED <<impl, hands, players, hearts_broken, current_leader, tricks,
                   trick_cards, lead_suit, current_player, i, scores, game_tricks,
                   trick_count, call, current_trick, decks>>

\* --------------------------------------------------------- game-simulation
\* faulty variant: the seats are visited against the rotation
SimPlayerIndex_reversed == (current_leader + NumPlayers - i) % NumPlayers

\* the seat about to play: the leader, then (current_leader + i) % 4
SimPlayerIndex == (current_leader + i) % NumPlayers

ValidMovesSim ==
    IF i = 0
    THEN GetValidMovesSim(tricks, hearts_broken, players[current_leader].hand, None, TRUE)
    ELSE GetValidMovesSim(tricks, hearts_broken, players[SimPlayerIndex].hand,
                          lead_suit, FALSE)

\* Player::play_card: a card of valid_moves, or of the hand when valid_moves is empty
SimChoose(hand, valid_moves) ==
    IF valid_moves = <<>> THEN Range(hand) ELSE Range(valid_moves)

\* play_trick: the first player's move
SimLeadCard ==
    /\ impl = "sim" /\ pc = "play_trick" /\ i = 0
    /\ \E first_card \in SimChoose(players[current_leader].hand, ValidMovesSim) :
        /\ players' = [players EXCEPT ![current_leader].hand = Retain(@, first_card)]
        /\ hearts_broken' = (hearts_broken \/ first_card.suit = "H")
        /\ trick_cards' = <<[card |-> first_card, player_index |-> current_leader]>>
        /\ lead_suit' = first_card.suit
    /\ i' = 1
    /\ UNCHANGED <<impl, hands, current_leader, tricks, current_player, scores,
                   game_tricks, trick_count, result, pc, call, current_trick, decks>>

\* faulty variant: a Heart played by a follower does not set self.hearts_broken
SimFollowCard_no_break ==
    /\ impl = "sim" /\ pc = "play_trick" /\ i \in 1 .. (NumPlayers - 1)
    /\ \E chosen_card \in SimChoose(players[SimPlayerIndex].hand, ValidMovesSim) :
        /\ players' = [players EXCEPT ![SimPlayerIndex].hand = Retain(@, chosen_card)]
        /\ hearts_broken' = hearts_broken
        /\ trick_cards' = Append(trick_cards,
                                 [card |-> chosen_card, player_index |-> SimPlayerIndex])
    /\ i' = i + 1
    /\ UNCHANGED <<impl, hands, current_leader, tricks, lead_suit, current_player,
                   scores, game_tricks, trick_count, result, pc, call, current_trick, decks>>

\* play_trick: one iteration of `for i in 1..4`
SimFollowCard ==
    /\ impl = "sim" /\ pc = "play_trick" /\ i \in 1 .. (NumPlayers - 1)
    /\ \E chosen_card \in SimChoose(players[SimPlayerIndex].hand, ValidMovesSim) :
        /\ players' = [players EXCEPT ![SimPlayerIndex].hand = Retain(@, chosen_card)]
        /\ hearts_broken' = (hearts_broken \/ chosen_card.suit = "H")
        /\ trick_cards' = Append(trick_cards,
                                 [card |-> chosen_card, player_index |-> SimPlayerIndex])
    /\ i' = i + 1
    /\ UNCHANGED <<impl, hands, current_leader, tricks, lead_suit, current_player,
                   scores, game_tricks, trick_count, result, pc, call, current_trick, decks>>

\* faulty variant: the points of the trick are credited to the seat that led it
SimResolveTrick_credit_leader ==
    /\ impl = "sim" /\ pc = "play_trick" /\ i = NumPlayers
    /\ LET winning_player == determine_trick_winner(trick_cards, lead_suit)
           trick_score == calculate_trick_score(trick_cards)
       IN  /\ players' = [players EXCEPT ![current_leader].score = @ + trick_score]
           /\ current_leader' = winning_player
           /\ tricks' = Append(tricks, [cards |-> trick_cards,
                                        winner |-> winning_player,
                                        points |-> trick_score])
    /\ trick_count' = trick_count + 1
    /\ pc' = IF trick_count + 1 = TricksPerGame THEN "finish" ELSE "play_trick"
    /\ trick_cards' = <<>>
    /\ lead_suit' = None
    /\ i' = 0
    /\ UNCHANGED <<impl, hands, hearts_broken, current_player, scores, game_tricks,
                   result, call, current_trick, decks>>

\* play_trick after the loop: winner, score, leader, self.tricks.push
SimResolveTrick ==
    /\ impl = "sim" /\ pc = "play_trick" /\ i = NumPlayers
    /\ LET winning_player == determine_trick_winner(trick_cards, lead_suit)
           trick_score == calculate_trick_score(trick_cards)
       IN  /\ players' = [players EXCEPT ![winning_player].score = @ + trick_score]
           /\ current_leader' = winning_player
           /\ tricks' = Append(tricks, [cards |-> trick_cards,
                                        winner |-> winning_player,
                                        points |-> trick_score])
    /\ trick_count' = trick_count + 1
    /\ pc' = IF trick_count + 1 = TricksPerGame THEN "finish" ELSE "play_trick"
    /\ trick_cards' = <<>>
    /\ lead_suit' = None
    /\ i' = 0
    /\ UNCHANGED <<impl, hands, hearts_broken, current_player, scores, game_tricks,
                   result, call, current_trick, decks>>

\* play_game after the tricks: final_scores, winner, GameResult
SimFinish ==
    /\ impl = "sim" /\ pc = "finish"
    /\ LET final_scores == [p \in Seats |-> players[p].score]
       IN  result' = [scores |-> final_scores, tricks |-> tricks,
                      winner |-> MinByScore(final_scores)]
    /\ pc' = "done"
    /\ UNCHANGED <<impl, hands, players, hearts_broken, current_leader, tricks,
                   trick_cards, lead_suit, current_player, i, scores, game_tricks,
                   trick_count, call, current_trick, decks>>

\* ------------------------------------------- play_game on a finished game
\* game-core: play_game called again on the same object. Its locals start afresh and
\* the first play_trick asks the leader's strategy for a card of its legal moves;
\* choose_card indexes valid_moves[0] (or unwraps None) and panics on an empty list,
\* before anything is written
CorePlayAgain ==
    /\ impl = "core" /\ pc = "done"
    /\ IF ChooseCard(ValidMovesCore) = {}
       THEN /\ pc' = "panic"
            /\ UNCHANGED <<scores, game_tricks, trick_count, current_player>>
       ELSE /\ pc' = "play_trick"
            /\ scores' = [p \in Seats |-> 0]
            /\ game_tricks' = <<>>
            /\ trick_count' = 0
            /\ current_player' = current_leader
    /\ UNCHANGED <<impl, hands, players, hearts_broken, current_leader, tricks,
                   trick_cards, lead_suit, i, result, call, current_trick, decks>>

\* game-simulation: play_game called again. Player::play_card evaluates self.hand[0]
\* for the fallback of unwrap_or and panics on an empty hand, before anything is written
SimPlayAgain ==
    /\ impl = "sim" /\ pc = "done"
    /\ IF SimChoose(players[current_leader].hand, ValidMovesSim) = {}
       THEN /\ pc' = "panic"
            /\ UNCHANGED trick_count
       ELSE /\ pc' = "play_trick"
            /\ trick_count' = 0
    /\ UNCHANGED <<impl, hands, players, hearts_broken, current_leader, tricks,
                   trick_cards, lead_suit, current_player, i, scores, game_tricks,
                   result, call, current_trick, decks>>

Next ==
    \/ CorePlayCard
    \/ CoreResolveTrick
    \/ CoreFinish
    \/ SimLeadCard
    \/ SimFollowCard
    \/ SimResolveTrick
    \/ SimFinish
    \/ CorePlayAgain
    \/ SimPlayAgain

Spec == Init /\ [][Next]_vars

\* one call of play_game runs to its return: the loops of play_game and play_trick are
\* sequential code that always takes its next step
PlayGameStep ==
    \/ CorePlayCard
    \/ CoreResolveTrick
    \/ CoreFinish
    \/ SimLeadCard
    \/ SimFollowCard
    \/ SimResolveTrick
    \/ SimFinish

\* every step of a call changes its position: the loop index, the trick count or pc
position == <<pc, i, trick_count>>

FairSpec == Init /\ [][Next]_vars /\ WF_position(PlayGameStep)

\* ------------------------------------------------- direct calls (pure code)
\* the deck sorted as a hand is sorted
SortedDeck == SortCards(NewCards)

\* every non-empty hand of at most n cards, kept sorted as deal leaves it
HandsUpTo(n) ==
    {SelectSeq(SortedDeck, LAMBDA c : c \in S) :
        S \in {T \in SUBSET DeckCards : Cardinality(T) \in 1 .. n}}

\* a completed first trick, for a game object whose history is not empty
SampleTrick ==
    [cards |-> <<[card |-> Card("C", TwoRank), player_index |-> 0],
                 [card |-> Card("C", QueenRank), player_index |-> 1],
                 [card |-> Card("D", TwoRank), player_index |-> 2],
                 [card |-> Card("S", TwoRank), player_index |-> 3]>>,
     winner |-> 1, points |-> 0]

\* a game object in an arbitrary table state, about to be asked for the legal moves
\* of an arbitrary hand
InitCalls ==
    /\ impl \in {"core", "sim"}
    /\ tricks \in {<<>>, <<SampleTrick>>}
    /\ hearts_broken \in BOOLEAN
    /\ hands = [p \in Seats |-> <<>>]
    /\ players = [p \in Seats |-> [hand |-> <<>>, score |-> 0]]
    /\ current_leader = 0
    /\ trick_cards = <<>>
    /\ lead_suit = None
    /\ current_player = 0
    /\ i = 0
    /\ scores = [p \in Seats |-> 0]
    /\ game_tricks = <<>>
    /\ trick_count = 0
    /\ result = None
    /\ pc = "call"
    /\ current_trick = TrickNew
    /\ decks = <<>>
    /\ \E hand \in HandsUpTo(RanksPerSuit) : \E suit \in Suits \cup {None} :
       \E is_first_card \in BOOLEAN :
          call = [op |-> "get_valid_moves", done |-> FALSE, hand |-> hand,
                  lead_suit |-> suit, is_first_card |-> is_first_card, ret |-> <<>>,
                  calls |-> 0, first |-> <<>>]

\* faulty variant: the call sets self.hearts_broken
CallGetValidMovesCore_breaks_hearts ==
    /\ pc = "call" /\ impl = "core"
    /\ call.op = "get_valid_moves" /\ call.calls < MaxCalls
    /\ call' = [call EXCEPT
                   !.done = TRUE,
                   !.calls = @ + 1,
                   !.first = IF call.calls = 0
                             THEN GetValidMovesCore(tricks, hearts_broken, call.hand,
                                                    call.lead_suit, call.is_first_card)
                             ELSE @,
                   !.ret = GetValidMovesCore(tricks, hearts_broken, call.hand,
                                             call.lead_suit, call.is_first_card)]
    /\ hearts_broken' = TRUE
    /\ UNCHANGED <<impl, hands, players, current_leader, tricks, trick_cards, lead_suit,
                   current_player, i, scores, game_tricks, trick_count, result, pc,
                   current_trick, decks>>

\* self.get_valid_moves(hand, lead_suit, is_first_card) of game-core, called up to
\* MaxCalls times on the same game and hand; the first answer is kept beside the last
CallGetValidMovesCore ==
    /\ pc = "call" /\ impl = "core"
    /\ call.op = "get_valid_moves" /\ call.calls < MaxCalls
    /\ call' = [call EXCEPT
                   !.done = TRUE,
                   !.calls = @ + 1,
                   !.first = IF call.calls = 0
                             THEN GetValidMovesCore(tricks, hearts_broken, call.hand,
                                                    call.lead_suit, call.is_first_card)
                             ELSE @,
                   !.ret = GetValidMovesCore(tricks, hearts_broken, call.hand,
                                             call.lead_suit, call.is_first_card)]
    /\ UNCHANGED <<game_vars, current_trick, decks>>

\* self.get_valid_moves of game-simulation, called up to MaxCalls times
CallGetValidMovesSim ==
    /\ pc = "call" /\ impl = "sim"
    /\ call.op = "get_valid_moves" /\ call.calls < MaxCalls
    /\ call' = [call EXCEPT
                   !.done = TRUE,
                   !.calls = @ + 1,
                   !.first = IF call.calls = 0
                             THEN GetValidMovesSim(tricks, hearts_broken, call.hand,
                                                   call.lead_suit, call.is_first_card)
                             ELSE @,
                   !.ret = GetValidMovesSim(tricks, hearts_broken, call.hand,
                                            call.lead_suit, call.is_first_card)]
    /\ UNCHANGED <<game_vars, current_trick, decks>>

NextCalls ==
    \/ CallGetValidMovesCore
    \/ CallGetValidMovesSim

SpecCalls == InitCalls /\ [][NextCalls]_vars

\* ------------------------------------------- direct calls of Trick::add_card
\* no game is running: the game object is not part of the calls below
NoGame ==
    /\ impl = "core"
    /\ tricks = <<>>
    /\ hearts_broken = FALSE
    /\ hands = [p \in Seats |-> <<>>]
    /\ players = [p \in Seats |-> [hand |-> <<>>, score |-> 0]]
    /\ current_leader = 0
    /\ trick_cards = <<>>
    /\ lead_suit = None
    /\ current_player = 0
    /\ i = 0
    /\ scores = [p \in Seats |-> 0]
    /\ game_tricks = <<>>
    /\ trick_count = 0
    /\ result = None

\* the cards handed to add_card: the lowest card of each suit
TrickCardPool == {Card(s, TwoRank) : s \in Suits}

\* a Trick fresh from Trick::new(), its public first_player_index set by the caller
InitTrick ==
    /\ NoGame
    /\ pc = "trick"
    /\ call = NoCall
    /\ \E first_player_index \in Seats :
          current_trick = [TrickNew EXCEPT !.first_player_index = first_player_index]
    /\ decks = <<>>

\* Trick::add_card(&mut self, card, player_index): self.cards[player_index] = Some(card).
\* The only failure is the bounds check of the index into the four slots.
TrickAddCard ==
    /\ pc = "trick"
    /\ \E card \in TrickCardPool : \E player_index \in 0 .. NumPlayers :
          /\ current_trick' =
                IF player_index \in Seats
                THEN [current_trick EXCEPT !.cards[player_index] = card]
                ELSE current_trick
          /\ call' = [op |-> "add_card", done |-> TRUE, card |-> card,
                      player_index |-> player_index, before |-> current_trick,
                      panicked |-> player_index \notin Seats]
    /\ UNCHANGED <<game_vars, decks>>

NextTrick == TrickAddCard

SpecTrick == InitTrick /\ [][NextTrick]_vars

\* --------------------------------------- direct calls of game-core-rs Deck
\* Option<u64>: Some(seed_value) and None
Some(seed_value) == [is_some |-> TRUE, value |-> seed_value]

NoSeed == [is_some |-> FALSE, value |-> 0]

\* the seeds passed to Deck::new
Seeds == {Some(v) : v \in 1 .. NumSeeds} \cup {NoSeed}

\* rand::thread_rng(): the state the thread's generator happens to be in
ThreadRng == 1 .. NumShuffles

\* StdRng::seed_from_u64(seed_value): the seed expanded to the state of the stream
seed_from_u64(seed_value) == NextRandom(seed_value)

\* faulty variant: the seed is ignored and the thread's generator is used
DeckRsShuffle_unseeded(cards, seed, thread_rng) == Shuffle(cards, thread_rng)

\* Deck::shuffle(&mut self, seed): match seed { Some(v) => seeded stream, None => thread_rng }
DeckRsShuffle(cards, seed, thread_rng) ==
    IF seed.is_some
    THEN Shuffle(cards, seed_from_u64(seed.value))
    ELSE Shuffle(cards, thread_rng)

\* no Deck has been built yet
InitDeck ==
    /\ NoGame
    /\ pc = "deck"
    /\ call = NoCall
    /\ current_trick = TrickNew
    /\ decks = <<>>

\* Deck::new(seed): the 52 cards in construction order, then shuffle(seed).  The
\* thread's generator is in a state the caller does not control.
DeckRsNew ==
    /\ pc = "deck" /\ Len(decks) < MaxDecks
    /\ \E seed \in Seeds : \E thread_rng \in ThreadRng :
          decks' = Append(decks,
                          [seed |-> seed,
                           built |-> DeckRsShuffle(NewCards, seed, thread_rng),
                           cards |-> DeckRsShuffle(NewCards, seed, thread_rng),
                           hands |-> [p \in Seats |-> <<>>],
                           deals |-> 0])
    /\ UNCHANGED <<game_vars, call, current_trick>>

\* Deck::deal(4): the cards are drained into the hands round-robin, each hand sorted
DeckRsDeal(k) ==
    /\ pc = "deck" /\ k \in 1 .. Len(decks)
    /\ decks[k].deals < MaxDeals
    /\ decks' = [decks EXCEPT ![k].hands = Deal(decks[k].cards, NumPlayers),
                              ![k].cards = <<>>,
                              ![k].deals = @ + 1]
    /\ UNCHANGED <<game_vars, call, current_trick>>

\* faulty variant: the slice is rotated to the right
rotate_left_to_right(cards, mid) ==
    [k \in 1 .. Len(cards) |-> cards[((k - 1 + Len(cards) - mid) % Len(cards)) + 1]]

\* slice::rotate_left(mid), for mid <= len: the element at index mid becomes the first
rotate_left(cards, mid) ==
    [k \in 1 .. Len(cards) |-> cards[((k - 1 + mid) % Len(cards)) + 1]]

\* Deck::rotate(&self, rotation): a clone of the cards rotated left, in a new Deck.
\* rotate_left asserts rotation <= len and panics otherwise; self is not written.
DeckRsRotate(k) ==
    /\ pc = "deck" /\ k \in 1 .. Len(decks) /\ Len(decks) < MaxDecks
    /\ \E rotation \in 0 .. (Len(NewCards) + 1) :
          IF rotation > Len(decks[k].cards)
          THEN /\ decks' = decks
               /\ call' = [op |-> "rotate", done |-> TRUE, deck |-> k,
                           rotation |-> rotation, before |-> decks[k].cards,
                           panicked |-> TRUE, ret |-> 0]
          ELSE /\ decks' = Append(decks,
                                  [seed |-> NoSeed,
                                   built |-> rotate_left(decks[k].cards, rotation),
                                   cards |-> rotate_left(decks[k].cards, rotation),
                                   hands |-> [p \in Seats |-> <<>>],
                                   deals |-> 0])
               /\ call' = [op |-> "rotate", done |-> TRUE, deck |-> k,
                           rotation |-> rotation, before |-> decks[k].cards,
                           panicked |-> FALSE, ret |-> Len(decks) + 1]
    /\ UNCHANGED <<game_vars, current_trick>>

NextDeck ==
    \/ DeckRsNew
    \/ \E k \in 1 .. MaxDecks : DeckRsDeal(k)
    \/ \E k \in 1 .. MaxDecks : DeckRsRotate(k)

SpecDeck == InitDeck /\ [][NextDeck]_vars

\* ------------------------------------- cli: generate_with_same_deck (reuse)
\* current_deck.rotate(13): a hand's worth of cards, a quarter of the deck
ReuseRotation == TricksPerGame

\* faulty variant: the test is made on the index of the next game plus one
NextDeckIsNew_off_by_one(game_index) == (game_index + 1) % ReuseCycle = 0

\* `if game_index % 4 == 0`, evaluated after game_index += 1
NextDeckIsNew(game_index) == game_index % ReuseCycle = 0

\* generate_with_same_deck(num_games, player_configs) is entered: results is empty,
\* game_index is 0 and current_deck is Deck::new(None)
InitBatch ==
    /\ NoGame
    /\ pc = "batch"
    /\ current_trick = TrickNew
    /\ decks = <<>>
    /\ \E num_games \in 0 .. MaxGames : \E thread_rng \in ThreadRng :
          call = [op |-> "generate_with_same_deck", done |-> FALSE,
                  num_games |-> num_games, game_index |-> 0,
                  current_deck |-> DeckRsShuffle(NewCards, NoSeed, thread_rng),
                  is_new |-> TRUE, results |-> <<>>]

\* one iteration of `for _ in 0..num_games`: a game is built from a clone of
\* current_deck, played and pushed to results; then the deck of the next game is chosen
BatchGame ==
    /\ pc = "batch" /\ ~call.done
    /\ Len(call.results) < call.num_games
    /\ \E thread_rng \in ThreadRng :
          call' = [call EXCEPT
                      !.results = Append(@, [deck |-> call.current_deck,
                                             game_index |-> call.game_index,
                                             is_new |-> call.is_new]),
                      !.game_index = @ + 1,
                      !.current_deck =
                          IF NextDeckIsNew(call.game_index + 1)
                          THEN DeckRsShuffle(NewCards, NoSeed, thread_rng)
                          ELSE rotate_left(@, ReuseRotation),
                      !.is_new = NextDeckIsNew(call.game_index + 1)]
    /\ UNCHANGED <<game_vars, current_trick, decks>>

\* the loop is over: results is returned
BatchReturn ==
    /\ pc = "batch" /\ ~call.done
    /\ Len(call.results) = call.num_games
    /\ call' = [call EXCEPT !.done = TRUE]
    /\ UNCHANGED <<game_vars, current_trick, decks>>

NextBatch ==
    \/ BatchGame
    \/ BatchReturn

SpecBatch == InitBatch /\ [][NextBatch]_vars

\* ================================================================= claims
\* the seat about to play and its legal moves, in either implementation
ActingSeat == IF impl = "core" THEN current_player ELSE SimPlayerIndex

ValidMoves == IF impl = "core" THEN ValidMovesCore ELSE ValidMovesSim

\* the tricks completed so far, as the result will list them
CompletedTricks == IF impl = "core" THEN game_tricks ELSE tricks

HoldsSuit(hand, suit) == \E k \in 1 .. Len(hand) : hand[k].suit = suit

\* C1: for every non-empty hand and every table state, get_valid_moves (of either
\* implementation) returns a non-empty list whose cards all belong to the hand.
C1_ValidMovesNonEmptySubset ==
    (call.op = "get_valid_moves" /\ call.done /\ call.hand # <<>>) =>
        /\ call.ret # <<>>
        /\ Range(call.ret) \subseteq Range(call.hand)

\* C1 witness: a hand of Hearts only, leading with hearts not broken, after the first
\* trick: every filter would empty the hand and the whole hand is returned.
C1_Witness ==
    /\ call.op = "get_valid_moves" /\ call.done
    /\ Len(call.hand) >= 2
    /\ \A k \in 1 .. Len(call.hand) : call.hand[k].suit = "H"
    /\ call.lead_suit = None /\ call.is_first_card
    /\ ~hearts_broken /\ tricks # <<>>
    /\ call.ret = call.hand

\* a card is being played in this step: the acting seat's card joins the trick
CardPlayed == Len(trick_cards') = Len(trick_cards) + 1

PlayedCard == trick_cards'[Len(trick_cards')].card

SuitCards(hand, suit) == {c \in Range(hand) : c.suit = suit}

\* C2: once a suit is led and the acting hand holds that suit, the legal moves are
\* exactly the hand's cards of that suit (first trick or later), and a seat plays
\* off-suit only when its hand holds no card of the led suit at its turn.
C2_MustFollowSuit ==
    /\ [](  (pc = "play_trick" /\ lead_suit # None /\ i < NumPlayers
             /\ HoldsSuit(players[ActingSeat].hand, lead_suit))
          => Range(ValidMoves) = SuitCards(players[ActingSeat].hand, lead_suit))
    /\ [][ (CardPlayed /\ lead_suit # None /\ PlayedCard.suit # lead_suit)
           => ~HoldsSuit(players[ActingSeat].hand, lead_suit) ]_vars

\* C2 witness: after the first trick, the second seat of a trick followed suit although
\* it still holds a card of another suit.
C2_Witness ==
    /\ trick_count >= 1 /\ Len(trick_cards) >= 2
    /\ trick_cards[2].card.suit = lead_suit
    /\ \E c \in Range(players[trick_cards[2].player_index].hand) : c.suit # lead_suit

\* the cards of the first trick of the game, while it is played and afterwards
FirstTrickCards ==
    IF trick_count = 0 THEN trick_cards ELSE CompletedTricks[1].cards

TwoOfClubs == Card("C", TwoRank)

\* C3: the initial leader is the seat dealt the Two of Clubs, its legal moves for the
\* first play are exactly the Two of Clubs, and the first card of the game is the Two
\* of Clubs, whatever the players choose.
C3_TwoOfClubsOpens ==
    /\ (pc = "play_trick" /\ trick_count = 0 /\ trick_cards = <<>>) =>
          /\ TwoOfClubs \in Range(hands[current_leader])
          /\ ActingSeat = current_leader
          /\ ValidMoves = <<TwoOfClubs>>
    /\ (pc # "call" /\ FirstTrickCards # <<>>) =>
          /\ FirstTrickCards[1].card = TwoOfClubs
          /\ TwoOfClubs \in Range(hands[FirstTrickCards[1].player_index])

\* C3 witness: the Two of Clubs was dealt to a seat other than seat 0 and has been
\* played as the first card.
C3_Witness ==
    /\ trick_count = 0 /\ Len(trick_cards) = 1
    /\ trick_cards[1].card = TwoOfClubs
    /\ trick_cards[1].player_index # 0

AllPenalty(hand) == \A c \in Range(hand) : is_hearts(c) \/ is_queen_of_spades(c)

\* a seat whose dealt hand leaves it no choice but a penalty card in the first trick
ForcedPenalty(p) == AllPenalty(hands[p]) /\ ~HoldsSuit(hands[p], "C")

\* C4: in the first trick a seat plays a Heart or the Queen of Spades only if its hand
\* held no card of the led suit and only penalty cards; when no seat is so forced the
\* completed first trick holds no penalty card and is worth 0 points.
C4_FirstTrickNoPenalty ==
    pc # "call" =>
      /\ \A k \in 1 .. Len(FirstTrickCards) :
            (is_hearts(FirstTrickCards[k].card) \/ is_queen_of_spades(FirstTrickCards[k].card))
            => /\ AllPenalty(hands[FirstTrickCards[k].player_index])
               /\ ~HoldsSuit(hands[FirstTrickCards[k].player_index],
                             FirstTrickCards[1].card.suit)
      /\ (trick_count >= 1 /\ \A p \in Seats : ~ForcedPenalty(p)) =>
            /\ CompletedTricks[1].points = 0
            /\ \A k \in 1 .. NumPlayers :
                  ~is_hearts(CompletedTricks[1].cards[k].card)
                  /\ ~is_queen_of_spades(CompletedTricks[1].cards[k].card)

\* C4 witness: a completed first trick in which a seat dealt only penalty cards had to
\* play one.
C4_Witness ==
    /\ trick_count >= 1
    /\ \E k \in 1 .. NumPlayers :
          /\ is_penalty(CompletedTricks[1].cards[k].card)
          /\ ForcedPenalty(CompletedTricks[1].cards[k].player_index)

\* C4 second witness state: a seat void in clubs holding penalty and safe cards has
\* played a safe card in the first trick.
C4_WitnessAvoided ==
    /\ trick_count >= 1
    /\ CompletedTricks[1].points = 0
    /\ \E p \in Seats : ~HoldsSuit(hands[p], "C") /\ \E c \in Range(hands[p]) : is_penalty(c)

\* a seat of the game-core HeartsGame is about to lead a trick
CoreLeading == impl = "core" /\ pc = "play_trick" /\ i = 0 /\ trick_cards = <<>>

\* a seat of the game-core HeartsGame is about to follow in a trick
CoreFollowing == impl = "core" /\ pc = "play_trick" /\ i \in 1 .. (NumPlayers - 1)

AllHearts(hand) == \A c \in Range(hand) : c.suit = "H"

\* C5: in game-core, a seat leading while hearts_broken is false has no Heart among its
\* legal moves unless its hand is Hearts only (then the legal moves are the whole
\* hand); a leader holding the Queen of Spades and Hearts only may not lead a Heart.
C5_NoHeartLeadUntilBroken ==
    (CoreLeading /\ ~hearts_broken) =>
        /\ (\E c \in Range(ValidMovesCore) : c.suit = "H")
              => AllHearts(players[current_player].hand)
        /\ AllHearts(players[current_player].hand)
              => ValidMovesCore = players[current_player].hand

\* C6: in game-core, from the second trick on, a seat holding no card of the led suit
\* may play any card of its hand, Hearts and the Queen of Spades included, whether or
\* not hearts are broken.
C6_VoidSeatPlaysAnything ==
    (CoreFollowing /\ trick_count >= 1
     /\ ~HoldsSuit(players[current_player].hand, lead_suit))
        => ValidMovesCore = players[current_player].hand

\* C7: when the legal moves of trick k+1 are computed, the history that
\* get_valid_moves consults (self.tricks) holds exactly the k completed tricks, so the
\* first-trick rules apply for k = 0 only.
C7_HistoryHoldsCompletedTricks ==
    pc = "play_trick" => Len(tricks) = trick_count

\* C7 restricted to game-simulation, where play_trick pushes the trick to self.tricks
C7_SimHistoryHoldsCompletedTricks ==
    (impl = "sim" /\ pc = "play_trick") => Len(tricks) = trick_count

\* the seat recorded in trick t for its k-th card holds the best card of the led suit
WinsTrick(t, k) ==
    /\ t.cards[k].player_index = t.winner
    /\ t.cards[k].card.suit = t.cards[1].card.suit
    /\ \A j \in 1 .. Len(t.cards) :
          t.cards[j].card.suit = t.cards[1].card.suit
          => t.cards[j].card.rank <= t.cards[k].card.rank

\* C8: the lead suit of a trick is the suit of its first card, and the recorded winner
\* of every completed trick is the seat that played the highest rank of the lead suit;
\* a card of another suit never wins, whatever its rank.
C8_WinnerHighestOfLeadSuit ==
    /\ (pc = "play_trick" /\ trick_cards # <<>>) => lead_suit = trick_cards[1].card.suit
    /\ pc # "call" =>
          \A n \in 1 .. Len(CompletedTricks) :
             /\ Len(CompletedTricks[n].cards) = NumPlayers
             /\ \E k \in 1 .. NumPlayers : WinsTrick(CompletedTricks[n], k)

\* C8 witness: a completed trick in which an off-suit card outranks every card of the
\* lead suit, and the winner is not the leader.
C8_Witness ==
    /\ pc # "call"
    /\ \E n \in 1 .. Len(CompletedTricks) :
          LET t == CompletedTricks[n]
          IN  /\ t.winner # t.cards[1].player_index
              /\ \E j \in 1 .. NumPlayers :
                    /\ t.cards[j].card.suit # t.cards[1].card.suit
                    /\ \A k \in 1 .. NumPlayers :
                          t.cards[k].card.suit = t.cards[1].card.suit
                          => t.cards[k].card.rank < t.cards[j].card.rank

\* 1 per Heart and 13 for the Queen of Spades among the cards of trick t
PenaltyPoints(t) ==
    Cardinality({k \in 1 .. Len(t.cards) : t.cards[k].card.suit = "H"})
    + 13 * Cardinality({k \in 1 .. Len(t.cards) :
                           t.cards[k].card = Card("S", QueenRank)})

\* C9: the points recorded for every completed trick are the sum of the scores of its
\* four cards: 1 per Heart, 13 for the Queen of Spades, 0 otherwise.
C9_TrickPointsAreCardScores ==
    pc # "call" =>
       \A n \in 1 .. Len(CompletedTricks) :
          CompletedTricks[n].points = PenaltyPoints(CompletedTricks[n])

\* C9 witness: a trick led with a Diamond and won by its leader, on which a Heart and the Queen of
\* Spades were dumped is recorded as worth 14.
C9_Witness ==
    /\ pc # "call"
    /\ \E n \in 1 .. Len(CompletedTricks) :
          LET t == CompletedTricks[n]
          IN  /\ t.cards[1].card.suit = "D"
              /\ t.winner = t.cards[1].player_index
              /\ t.points = 14

\* the points in the deck: one per Heart, 13 for the Queen of Spades
DeckPoints(cards) ==
    Cardinality({c \in cards : c.suit = "H"})
    + 13 * Cardinality({c \in cards : c = Card("S", QueenRank)})

FullDeck == {Card(s, r) : s \in Suits, r \in AllRanks}

SumScores(sc) == sc[0] + sc[1] + sc[2] + sc[3]

\* C10: in every completed game the four final scores add up to the points of the deck
\* that was dealt, whatever the deal and the cards chosen; the 52-card deck holds 26.
C10_ScoresSumToDeckPoints ==
    /\ pc = "done" => SumScores(result.scores) = DeckPoints(DeckCards)
    /\ DeckPoints(FullDeck) = 26
    /\ Cardinality(FullDeck) = 52

\* C10 witness: a finished game in which at least two seats took points.
C10_Witness ==
    /\ pc = "done"
    /\ Cardinality({p \in Seats : result.scores[p] > 0}) >= 2

\* the game is between two tricks: dealt, or a trick just completed
TrickBoundary == pc \in {"play_trick", "finish", "done", "panic"} /\ trick_cards = <<>>

\* the cards held in the four hands and the cards lying in the completed tricks
CardsInHands == UNION {Range(players[p].hand) : p \in Seats}

CardsInTricks ==
    {CompletedTricks[n].cards[k].card :
        n \in 1 .. Len(CompletedTricks), k \in 1 .. NumPlayers}

CardCount ==
    SumSeq([p \in 1 .. NumPlayers |-> Len(players[p - 1].hand)])
    + SumSeq([n \in 1 .. Len(CompletedTricks) |-> Len(CompletedTricks[n].cards)])

\* C11: at every trick boundary the four hands and the completed tricks hold exactly
\* the cards of the deck, each once (4 x 13 = 52 in the full deck), and after t
\* completed tricks every hand holds 13 - t cards.
C11_CardsPartitioned ==
    TrickBoundary =>
        /\ CardsInHands \cup CardsInTricks = DeckCards
        /\ CardCount = Cardinality(DeckCards)
        /\ Cardinality(DeckCards) = NumPlayers * TricksPerGame
        /\ \A p \in Seats : Len(players[p].hand) = TricksPerGame - trick_count

\* C11 witness: a boundary in the middle of the game, after two completed tricks.
C11_Witness ==
    /\ TrickBoundary /\ pc = "play_trick"
    /\ trick_count = 2
    /\ Cardinality(CardsInTricks) = 2 * NumPlayers

\* the running score of a seat: play_game's local scores (game-core), Player.score
\* (game-simulation)
SeatScore(p) == IF impl = "core" THEN scores[p] ELSE players[p].score

\* a trick is completed in this step
TrickCompleted == trick_count' = trick_count + 1

LastTrick == CompletedTricks[Len(CompletedTricks)]

\* the points of the completed tricks won by seat p
WonPoints(p) ==
    SumSeq([n \in 1 .. Len(CompletedTricks) |->
        IF CompletedTricks[n].winner = p THEN CompletedTricks[n].points ELSE 0])

\* C12: the step that completes a trick adds the trick's points to its winner's score
\* and leaves the other scores unchanged; no step decreases a score; at every trick
\* boundary each seat's score is the sum of the points of the tricks it has won.
C12_WinnerTakesTrickPoints ==
    /\ [][ TrickCompleted =>
             \A p \in Seats :
                SeatScore(p)' = SeatScore(p)
                                + (IF p = LastTrick'.winner THEN LastTrick'.points ELSE 0)
         ]_vars
    /\ [][ \A p \in Seats : SeatScore(p)' >= SeatScore(p) ]_vars
    /\ [](TrickBoundary => \A p \in Seats : SeatScore(p) = WonPoints(p))

\* C12 witness: two seats have each won a trick worth points, one of them a trick it
\* did not lead, and a third seat still has 0.
C12_Witness ==
    /\ TrickBoundary
    /\ \E p, q \in Seats : \E m, n \in 1 .. Len(CompletedTricks) :
          /\ p # q /\ m # n
          /\ CompletedTricks[m].winner = p /\ CompletedTricks[m].points > 0
          /\ CompletedTricks[n].winner = q /\ CompletedTricks[n].points > 0
          /\ CompletedTricks[n].cards[1].player_index # q
          /\ SeatScore(p) = WonPoints(p) /\ SeatScore(q) = WonPoints(q)
    /\ \E r \in Seats : SeatScore(r) = 0

\* the seat that played the first card of trick t
TrickLeader(t) == t.cards[1].player_index

\* C13: the first card of every trick after the first is played by the seat recorded
\* as winner of the trick before it, and that seat is the one asked to lead.
C13_WinnerLeadsNextTrick ==
    pc # "call" =>
        /\ \A n \in 2 .. Len(CompletedTricks) :
              TrickLeader(CompletedTricks[n]) = CompletedTricks[n - 1].winner
        /\ (pc = "play_trick" /\ trick_count >= 1 /\ trick_cards # <<>>) =>
              trick_cards[1].player_index = CompletedTricks[trick_count].winner
        /\ (pc = "play_trick" /\ trick_count >= 1 /\ trick_cards = <<>>) =>
              ActingSeat = CompletedTricks[trick_count].winner

\* C13 witness: a trick was won by a seat that had not led it, and that seat has led
\* the next trick.
C13_Witness ==
    /\ pc # "call"
    /\ \E n \in 2 .. Len(CompletedTricks) :
          /\ CompletedTricks[n - 1].winner # TrickLeader(CompletedTricks[n - 1])
          /\ TrickLeader(CompletedTricks[n]) = CompletedTricks[n - 1].winner

\* the cards of trick t were played in rotation from its leader
InRotation(cards) ==
    \A j \in 1 .. Len(cards) :
        cards[j].player_index = (cards[1].player_index + (j - 1)) % NumPlayers

\* C14: within every trick the j-th card (j = 0..3) is played by seat (leader + j) mod 4
\* and a completed trick holds exactly one card of each of the four seats.
C14_SeatsPlayInRotation ==
    pc # "call" =>
        /\ InRotation(trick_cards)
        /\ (pc = "play_trick" /\ i < NumPlayers) =>
              ActingSeat = (current_leader + Len(trick_cards)) % NumPlayers
        /\ trick_cards # <<>> => trick_cards[1].player_index = current_leader
        /\ \A n \in 1 .. Len(CompletedTricks) :
              /\ InRotation(CompletedTricks[n].cards)
              /\ Len(CompletedTricks[n].cards) = NumPlayers
              /\ {CompletedTricks[n].cards[k].player_index : k \in 1 .. NumPlayers} = Seats

\* C14 witness: a completed trick led by seat 2, so that the rotation wraps around
\* seat 3 to seat 0.
C14_Witness ==
    /\ pc # "call"
    /\ \E n \in 1 .. Len(CompletedTricks) :
          /\ TrickLeader(CompletedTricks[n]) = 2
          /\ CompletedTricks[n].cards[3].player_index = 0

\* the number of seats that have a card in the trick
PlayedCount(t) == Cardinality({p \in Seats : t.cards[p] # NoCard})

\* the seat whose turn it is in trick t, counting from its leader
NextInRotation(t) == (t.first_player_index + PlayedCount(t)) % NumPlayers

\* the last call of add_card named a seat out of turn, or a seat that had already played
OutOfTurn ==
    /\ call.op = "add_card" /\ call.done
    /\ \/ call.player_index # NextInRotation(call.before)
       \/ (call.player_index \in Seats /\ call.before.cards[call.player_index] # NoCard)

\* C15: add_card fails on a card for a seat that is not next in rotation from the
\* trick's leader and on a card for a seat that has already played, and leaves the
\* slots of the trick as they were.
C15_AddCardRejectsOutOfTurn ==
    OutOfTurn => (call.panicked /\ current_trick = call.before)

\* every card played so far in the game
CardsPlayed ==
    {CompletedTricks[n].cards[k].card :
        n \in 1 .. Len(CompletedTricks), k \in 1 .. NumPlayers}
    \cup {trick_cards[k].card : k \in 1 .. Len(trick_cards)}

HeartPlayed == \E c \in CardsPlayed : c.suit = "H"

\* C16: hearts_broken is false when the game starts, is true exactly when at least
\* one Heart has been played (led or followed), and once true stays true.
C16_HeartsBrokenIffHeartPlayed ==
    /\ [](pc # "call" => (hearts_broken <=> HeartPlayed))
    /\ []((pc = "play_trick" /\ trick_count = 0 /\ trick_cards = <<>>) => ~hearts_broken)
    /\ [][hearts_broken => hearts_broken']_vars

\* C16 witness: the first Heart of the game was played by a follower on a lead of
\* another suit, and hearts are broken.
C16_Witness ==
    /\ pc = "play_trick" /\ hearts_broken
    /\ Len(trick_cards) >= 2
    /\ trick_cards[1].card.suit # "H"
    /\ trick_cards[Len(trick_cards)].card.suit = "H"
    /\ \A k \in 1 .. (Len(trick_cards) - 1) : trick_cards[k].card.suit # "H"
    /\ \A n \in 1 .. Len(CompletedTricks) : \A k \in 1 .. NumPlayers :
          CompletedTricks[n].cards[k].card.suit # "H"

\* C16 second witness state: the first Heart of the game was led.
C16_WitnessLed ==
    /\ pc = "play_trick" /\ hearts_broken
    /\ Len(trick_cards) = 1 /\ trick_cards[1].card.suit = "H"
    /\ \A n \in 1 .. Len(CompletedTricks) : \A k \in 1 .. NumPlayers :
          CompletedTricks[n].cards[k].card.suit # "H"

\* C17: play_game never gets stuck and terminates: a seat asked to play always has a
\* legal move in its non-empty hand, the game ends after exactly 13 tricks (one per
\* card of a hand) of 4 cards each, and then the four hands are empty and the result
\* lists the 13 completed tricks.
C17_PlayGameTerminates ==
    /\ []((pc = "play_trick" /\ i < NumPlayers) =>
            /\ players[ActingSeat].hand # <<>>
            /\ ValidMoves # <<>>
            /\ Range(ValidMoves) \subseteq Range(players[ActingSeat].hand))
    /\ [](pc = "play_trick" => trick_count < TricksPerGame)
    /\ [](pc \in {"finish", "done"} =>
            /\ trick_count = TricksPerGame
            /\ Len(CompletedTricks) = TricksPerGame
            /\ \A p \in Seats : players[p].hand = <<>>)
    /\ [](pc = "done" =>
            /\ Len(result.tricks) = TricksPerGame
            /\ \A n \in 1 .. TricksPerGame : Len(result.tricks[n].cards) = NumPlayers)
    /\ <>(pc = "done")

\* C17 witness: a finished game whose last trick was led with a Heart.
C17_Witness ==
    /\ pc = "done"
    /\ Len(result.tricks) = TricksPerGame
    /\ result.tricks[TricksPerGame].cards[1].card.suit = "H"
    /\ \A p \in Seats : players[p].hand = <<>>

\* play_game has returned its result (and may since have been called again)
Finished == pc \in {"done", "panic"}

\* C18: once the game is finished no step changes the hands, the scores,
\* hearts_broken, the leader or the trick history; play_game called again starts no
\* trick, adds no trick and changes no score.
C18_FinishedGameIsFrozen ==
    [][ Finished =>
          /\ UNCHANGED <<hands, players, hearts_broken, current_leader, tricks, result>>
          /\ \A p \in Seats : SeatScore(p)' = SeatScore(p)
          /\ CompletedTricks' = CompletedTricks
          /\ Finished'
      ]_vars

\* C18 witness: play_game has been called again on a finished game and has stopped at
\* the first card of its first trick.
C18_Witness ==
    /\ pc = "panic"
    /\ Len(result.tricks) = TricksPerGame
    /\ \A p \in Seats : players[p].hand = <<>>
    /\ trick_cards = <<>>

\* C19: the recorded winner of a finished game has the minimum of the four final
\* scores, and among the seats tied for the minimum it is the one of lowest index.
C19_WinnerHasMinimumScore ==
    Finished =>
        /\ result.winner \in Seats
        /\ \A q \in Seats : result.scores[result.winner] <= result.scores[q]
        /\ \A q \in Seats :
              result.scores[q] = result.scores[result.winner] => result.winner <= q
        /\ \A q \in Seats : result.scores[q] = SeatScore(q)

\* C19 witness: a finished game in which a seat of lower index scored more than the
\* winner and a seat of higher index ties with the winner.
C19_Witness ==
    /\ pc = "done"
    /\ \E q \in Seats : q < result.winner /\ result.scores[q] > result.scores[result.winner]
    /\ \E q \in Seats : q > result.winner /\ result.scores[q] = result.scores[result.winner]

\* two Deck objects built from the same Some(seed)
SameSeed(a, b) == decks[a].seed.is_some /\ decks[a].seed = decks[b].seed

\* C20: two decks built with Deck::new(Some(s)) for the same s have the same card
\* order, and deal(4) on each yields the same four hands, whatever the state of the
\* thread's random generator at either construction.
C20_SeededDeckDeterministic ==
    \A a, b \in 1 .. Len(decks) :
        SameSeed(a, b) =>
            /\ decks[a].built = decks[b].built
            /\ decks[a].deals = decks[b].deals =>
                  /\ decks[a].hands = decks[b].hands
                  /\ decks[a].cards = decks[b].cards

\* C20 witness: two decks built with the same seed have each been dealt once, to four
\* hands that hold the whole deck.
C20_Witness ==
    /\ Len(decks) = 2
    /\ SameSeed(1, 2)
    /\ decks[1].deals = 1 /\ decks[2].deals = 1
    /\ decks[1].hands = decks[2].hands
    /\ UNION {Range(decks[1].hands[p]) : p \in Seats} = DeckCards
    /\ \A p \in Seats : Len(decks[2].hands[p]) = TricksPerGame

\* C20 second witness state: two decks built without a seed differ in card order.
C20_WitnessUnseeded ==
    /\ Len(decks) = 2
    /\ ~decks[1].seed.is_some /\ ~decks[2].seed.is_some
    /\ decks[1].built # decks[2].built

\* hand is sorted ascending by (suit, rank)
SortedHand(hand) == \A k \in 1 .. (Len(hand) - 1) : CardLess(hand[k], hand[k + 1])

\* deck d was dealt once, fresh from its construction
FreshlyDealt(d) == d.deals = 1 /\ Len(d.built) = Cardinality(DeckCards)

\* C21: deal(4) on a freshly built deck puts the card at deck position i into hand
\* i mod 4; the four hands have 13 cards each (a quarter of the deck), are pairwise
\* disjoint, together hold the whole deck, and each is sorted ascending by (suit, rank).
C21_DealRoundRobinSorted ==
    \A n \in 1 .. Len(decks) :
        FreshlyDealt(decks[n]) =>
            /\ DOMAIN decks[n].hands = Seats
            /\ \A k \in 1 .. Len(decks[n].built) :
                  decks[n].built[k] \in Range(decks[n].hands[(k - 1) % NumPlayers])
            /\ \A p \in Seats : Len(decks[n].hands[p]) = TricksPerGame
            /\ \A p, q \in Seats :
                  p # q => Range(decks[n].hands[p]) \cap Range(decks[n].hands[q]) = {}
            /\ UNION {Range(decks[n].hands[p]) : p \in Seats} = DeckCards
            /\ Cardinality(DeckCards) = NumPlayers * TricksPerGame
            /\ \A p \in Seats : SortedHand(decks[n].hands[p])
            /\ decks[n].cards = <<>>

\* C21 witness: a deck whose construction order is not sorted has been dealt once, and
\* a hand holds cards in another order than they had in the deck.
C21_Witness ==
    \E n \in 1 .. Len(decks) :
        /\ FreshlyDealt(decks[n])
        /\ \E p \in Seats :
              decks[n].hands[p] #
                 SelectSeq(decks[n].built, LAMBDA c : c \in Range(decks[n].hands[p]))

\* the last call of rotate and the deck it returned
Rotated == call.op = "rotate" /\ ~call.panicked

\* C22: for a deck of n cards and every k in [0, n), rotate(k) returns a new deck whose
\* card at position i is the original's card at position (i + k) mod n, with the same
\* cards, and the card sequence of the original deck is left as it was.
C22_RotateLeftByK ==
    /\ []((Rotated /\ call.rotation < Len(call.before)) =>
            LET n == Len(call.before)
                new == decks[call.ret].built
            IN  /\ Len(new) = n
                /\ \A j \in 0 .. (n - 1) :
                      new[j + 1] = call.before[((j + call.rotation) % n) + 1]
                /\ Range(new) = Range(call.before))
    /\ []((call.op = "rotate" /\ call.rotation < Len(call.before)) => ~call.panicked)
    /\ [][ Len(decks') = Len(decks) + 1 =>
             \A n \in 1 .. Len(decks) : decks'[n] = decks[n] ]_vars

\* C22 witness: a full deck rotated by a quarter of its cards: the new deck starts with
\* the original's card at position 13 (0-based) and the original is still in place.
C22_Witness ==
    /\ Rotated
    /\ call.rotation = TricksPerGame
    /\ Len(call.before) = Cardinality(DeckCards)
    /\ decks[call.ret].built[1] = call.before[TricksPerGame + 1]
    /\ decks[call.ret].built # call.before
    /\ decks[call.deck].cards = call.before

\* C23: rotate(k) fails, returning no deck, for every k greater than or equal to the
\* number of cards in the deck, k equal to the deck size included.
C23_RotateRejectsOutOfRange ==
    (call.op = "rotate" /\ call.rotation >= Len(call.before)) => call.panicked

\* deck b is deck a rotated left by k, card for card
IsRotationOf(b, a, k) ==
    /\ Len(b) = Len(a)
    /\ \A j \in 0 .. (Len(a) - 1) : b[j + 1] = a[((j + k) % Len(a)) + 1]

\* C24: in deal-reuse generation game number i (0-based) is dealt from a newly
\* shuffled deck exactly when i mod 4 = 0 and otherwise from the previous game's deck
\* rotated left by 13 (a hand's worth) without reshuffle; the returned batch holds
\* exactly num_games records, in generation order.
C24_ReuseCyclesEveryFourGames ==
    call.op = "generate_with_same_deck" =>
        /\ \A n \in 1 .. Len(call.results) :
              /\ call.results[n].game_index = n - 1
              /\ call.results[n].is_new <=> ((n - 1) % 4 = 0)
              /\ (n - 1) % 4 # 0 =>
                    /\ IsRotationOf(call.results[n].deck, call.results[n - 1].deck,
                                    ReuseRotation)
                    /\ Range(call.results[n].deck) = Range(call.results[n - 1].deck)
        /\ Len(call.results) <= call.num_games
        /\ call.done => Len(call.results) = call.num_games

\* C24 witness: a returned batch of six games: the fifth was dealt from a new shuffle
\* that is no rotation of the fourth game's deck, the sixth from its rotation.
C24_Witness ==
    /\ call.op = "generate_with_same_deck" /\ call.done
    /\ call.num_games = 6
    /\ call.results[5].is_new /\ ~call.results[6].is_new
    /\ ~IsRotationOf(call.results[5].deck, call.results[4].deck, ReuseRotation)
    /\ call.results[2].deck # call.results[1].deck

\* ------------------------------------------- direct calls of Card methods
\* game-core card.rs: Card::is_penalty and Card::score, written out inline
CardRsIsPenalty(c) == c.suit = "H" \/ (c.suit = "S" /\ c.rank = QueenRank)

CardRsScore(c) ==
    IF c.suit = "H" THEN HeartScore
    ELSE IF c.suit = "S" /\ c.rank = QueenRank THEN QueenOfSpadesScore
    ELSE 0

\* one of the 52 cards, about to be asked for its score and penalty status by one of
\* the two Card types
InitCard ==
    /\ NoGame
    /\ pc = "card"
    /\ current_trick = TrickNew
    /\ decks = <<>>
    /\ \E c \in FullDeck : \E which \in {"models", "card"} :
          call = [op |-> "card", done |-> FALSE, which |-> which, card |-> c,
                  score |-> 0, is_penalty |-> FALSE]

\* models.rs: card.score() and card.is_penalty()
CallCardModels ==
    /\ pc = "card" /\ ~call.done /\ call.which = "models"
    /\ call' = [call EXCEPT !.done = TRUE,
                            !.score = score(call.card),
                            !.is_penalty = is_penalty(call.card)]
    /\ UNCHANGED <<game_vars, current_trick, decks>>

\* card.rs: card.score() and card.is_penalty()
CallCardRs ==
    /\ pc = "card" /\ ~call.done /\ call.which = "card"
    /\ call' = [call EXCEPT !.done = TRUE,
                            !.score = CardRsScore(call.card),
                            !.is_penalty = CardRsIsPenalty(call.card)]
    /\ UNCHANGED <<game_vars, current_trick, decks>>

NextCard ==
    \/ CallCardModels
    \/ CallCardRs

SpecCard == InitCard /\ [][NextCard]_vars

\* the sum of the scores of a set of cards, as one of the two Card types computes them
RECURSIVE ScoreSum(_, _)
ScoreSum(cards, which) ==
    IF cards = {} THEN 0
    ELSE LET c == CHOOSE x \in cards : TRUE
         IN  (IF which = "models" THEN score(c) ELSE CardRsScore(c))
             + ScoreSum(cards \ {c}, which)

\* C25: for each of the 52 cards score() is non-zero exactly when is_penalty() is
\* true: a Heart scores 1, the Queen of Spades 13, every other card scores 0 and is
\* no penalty card; the scores of the 52 cards add up to 26.
C25_ScoreAgreesWithPenalty ==
    (call.op = "card" /\ call.done) =>
        /\ (call.score # 0) <=> call.is_penalty
        /\ call.card.suit = "H" => call.score = 1
        /\ (call.card.suit = "S" /\ call.card.rank = 12) => call.score = 13
        /\ (call.card.suit # "H" /\ ~(call.card.suit = "S" /\ call.card.rank = 12)) =>
              (call.score = 0 /\ ~call.is_penalty)
        /\ Cardinality(FullDeck) = 52
        /\ ScoreSum(FullDeck, call.which) = 26

\* C25 witness: the Queen of Spades has been scored 13 and found a penalty card.
C25_Witness ==
    /\ call.op = "card" /\ call.done
    /\ call.card = Card("S", QueenRank)
    /\ call.score = 13 /\ call.is_penalty

\* ------------------------------------------------------ decision policies
\* the outcome of a call of choose_card: a card, or a panic
Chose(c) == [panicked |-> FALSE, card |-> c]

Panicked == [panicked |-> TRUE, card |-> NoCard]

\* the key of AvoidPoints and Aggressive: card.rank + 13 for a penalty card
PenaltyKey(c) == IF is_penalty(c) THEN c.rank + 13 ELSE c.rank

\* faulty variant: penalty cards get no offset at all
min_by_penalty_key_plain_rank(cards) ==
    cards[CHOOSE k \in 1 .. Len(cards) :
            /\ \A j \in 1 .. Len(cards) : cards[k].rank <= cards[j].rank
            /\ \A j \in 1 .. (k - 1) : cards[j].rank > cards[k].rank]

\* iter().min_by_key(key): the first card of minimal key
min_by_penalty_key(cards) ==
    cards[CHOOSE k \in 1 .. Len(cards) :
            /\ \A j \in 1 .. Len(cards) : PenaltyKey(cards[k]) <= PenaltyKey(cards[j])
            /\ \A j \in 1 .. (k - 1) : PenaltyKey(cards[j]) > PenaltyKey(cards[k])]

\* faulty variant: the highest rank is taken, penalty or not
max_by_penalty_key_plain_rank(cards) ==
    cards[CHOOSE k \in 1 .. Len(cards) :
            /\ \A j \in 1 .. Len(cards) : cards[j].rank <= cards[k].rank
            /\ \A j \in (k + 1) .. Len(cards) : cards[j].rank < cards[k].rank]

\* iter().max_by_key(key): the last card of maximal key
max_by_penalty_key(cards) ==
    cards[CHOOSE k \in 1 .. Len(cards) :
            /\ \A j \in 1 .. Len(cards) : PenaltyKey(cards[j]) <= PenaltyKey(cards[k])
            /\ \A j \in (k + 1) .. Len(cards) : PenaltyKey(cards[j]) < PenaltyKey(cards[k])]

\* AvoidPointsStrategy::choose_card
AvoidPointsChoose(valid_moves) == Chose(min_by_penalty_key(valid_moves))

\* AggressiveStrategy::choose_card
AggressiveChoose(valid_moves) == Chose(max_by_penalty_key(valid_moves))

\* valid_moves.iter().find(|c| c.suit == prediction.suit && c.rank == prediction.rank)
\*     .copied().unwrap_or(valid_moves[0])
FindOrFirst(valid_moves, prediction) ==
    IF \E k \in 1 .. Len(valid_moves) : valid_moves[k] = prediction
    THEN prediction
    ELSE valid_moves[1]

\* game-core-rs AIStrategy::choose_card: panic on a failed request, first valid move
\* on an unparseable response or a prediction that is not a valid move
AIChooseRs(valid_moves, response) ==
    IF response.kind = "request_failed" THEN Panicked
    ELSE IF response.kind = "unparseable" THEN Chose(valid_moves[1])
    ELSE Chose(FindOrFirst(valid_moves, response.card))

\* game-core AIStrategy::choose_card: first valid move on every failure
AIChooseCore(valid_moves, response) ==
    IF response.kind = "request_failed" THEN Chose(valid_moves[1])
    ELSE IF response.kind = "unparseable" THEN Chose(valid_moves[1])
    ELSE Chose(FindOrFirst(valid_moves, response.card))

\* ------------------------------------------ MyStrategy (tactical policy)
\* Trick::is_first_card: no slot holds a card
TrickIsFirstCard(t) == \A p \in Seats : t.cards[p] = NoCard

\* Trick::lead_suit().unwrap_or('C'): the suit in the slot of first_player_index
TrickLeadSuitOrClubs(t) ==
    IF t.cards[t.first_player_index] = NoCard THEN "C"
    ELSE t.cards[t.first_player_index].suit

\* cards.iter().filter_map(|c| *c): the cards in the slots of a trick, in slot order
SlotCards(t) ==
    SelectSeq([k \in 1 .. NumPlayers |-> t.cards[k - 1]], LAMBDA c : c # NoCard)

\* the cards of all previous tricks, in order
RECURSIVE PreviousCards(_)
PreviousCards(previous_tricks) ==
    IF previous_tricks = <<>> THEN <<>>
    ELSE Head(previous_tricks).cards \o PreviousCards(Tail(previous_tricks))

\* number_of_cards_out_per_suit[suit]: hand, previous tricks and current trick
CardsOut(gs, suit) ==
    Len(SelectSeq(gs.player_hand, LAMBDA c : c.suit = suit))
    + Len(SelectSeq(PreviousCards(gs.previous_tricks), LAMBDA c : c.suit = suit))
    + Len(SelectSeq(SlotCards(gs.current_trick), LAMBDA c : c.suit = suit))

\* faulty variant: the Queen of Spades is taken to be out from the start
QueenOfSpadesIsOut_always(gs) == TRUE

\* queen_of_spades_is_out: the Queen of Spades lies in a previous trick
QueenOfSpadesIsOut(gs) ==
    \E k \in 1 .. Len(PreviousCards(gs.previous_tricks)) :
        is_queen_of_spades(PreviousCards(gs.previous_tricks)[k])

\* excluded_suits: Hearts, and Spades until the Queen of Spades is out
ExcludedSuits(gs) == IF QueenOfSpadesIsOut(gs) THEN {"H"} ELSE {"H", "S"}

\* ['C', 'D', 'H', 'S'] filtered and min_by_key(count): the first suit of minimal
\* count among those with cards out and not excluded, 'C' when there is none
SuitWithLessCards(gs) ==
    LET order == <<"C", "D", "H", "S">>
        ok == SelectSeq(order, LAMBDA su : CardsOut(gs, su) > 0 /\ su \notin ExcludedSuits(gs))
    IN  IF ok = <<>> THEN "C"
        ELSE ok[CHOOSE k \in 1 .. Len(ok) :
                  /\ \A j \in 1 .. Len(ok) : CardsOut(gs, ok[k]) <= CardsOut(gs, ok[j])
                  /\ \A j \in 1 .. (k - 1) : CardsOut(gs, ok[j]) > CardsOut(gs, ok[k])]

\* sort_by_key(|card| card.rank), a stable insertion
RECURSIVE InsertByRank(_, _)
InsertByRank(c, sorted) ==
    IF sorted = <<>> THEN <<c>>
    ELSE IF c.rank < Head(sorted).rank THEN <<c>> \o sorted
    ELSE <<Head(sorted)>> \o InsertByRank(c, Tail(sorted))

RECURSIVE SortByRank(_)
SortByRank(cards) ==
    IF cards = <<>> THEN <<>>
    ELSE InsertByRank(cards[Len(cards)], SortByRank(SubSeq(cards, 1, Len(cards) - 1)))

\* MyStrategy::sorted_hand_from_suit
sorted_hand_from_suit(hand, suit) ==
    SortByRank(SelectSeq(hand, LAMBDA c : c.suit = suit))

\* faulty variant: the first card is taken
Last_first(cards) == cards[1]

\* cards.last().unwrap()
Last(cards) == cards[Len(cards)]

\* choose_card, leading a trick: the lowest card of the chosen suit when more than
\* ManyCardsOut of it are out, else the highest; a card of the hand when the hand holds
\* none of that suit (indexing an empty hand panics)
MyLead(gs) ==
    LET suit == SuitWithLessCards(gs)
        sorted_hand == sorted_hand_from_suit(gs.player_hand, suit)
    IN  IF CardsOut(gs, suit) > ManyCardsOut
        THEN (IF sorted_hand # <<>> THEN Chose(sorted_hand[1])
              ELSE IF gs.player_hand = <<>> THEN Panicked
              ELSE Chose(gs.player_hand[1]))
        ELSE (IF sorted_hand # <<>> THEN Chose(Last(sorted_hand))
              ELSE IF gs.player_hand = <<>> THEN Panicked
              ELSE Chose(Last(gs.player_hand)))

\* choose_card, following: the internal choice of the policy
MyFollow(gs, valid_moves) ==
    LET lead_suit_or_clubs == TrickLeadSuitOrClubs(gs.current_trick)
        trick_cards_in_suit ==
            SelectSeq(SlotCards(gs.current_trick), LAMBDA c : c.suit = lead_suit_or_clubs)
        \* max_by_key(rank): the last card of maximal rank
        highest_card_in_trick ==
            trick_cards_in_suit[CHOOSE k \in 1 .. Len(trick_cards_in_suit) :
                /\ \A j \in 1 .. Len(trick_cards_in_suit) :
                      trick_cards_in_suit[j].rank <= trick_cards_in_suit[k].rank
                /\ \A j \in (k + 1) .. Len(trick_cards_in_suit) :
                      trick_cards_in_suit[j].rank < trick_cards_in_suit[k].rank]
        can_follow_suit == HoldsSuit(gs.player_hand, lead_suit_or_clubs)
        sorted_hand == sorted_hand_from_suit(gs.player_hand, lead_suit_or_clubs)
        trick_score ==
            SumSeq([k \in 1 .. Len(SlotCards(gs.current_trick)) |->
                        score(SlotCards(gs.current_trick)[k])])
        should_take_trick ==
            /\ trick_score = 0
            /\ CardsOut(gs, lead_suit_or_clubs) < ManyCardsOut
            /\ lead_suit_or_clubs \notin ExcludedSuits(gs)
        sorted_hand_lower_than_highest ==
            SelectSeq(sorted_hand, LAMBDA c : c.rank < highest_card_in_trick.rank)
        queens == SelectSeq(gs.player_hand, is_queen_of_spades)
        sorted_hearts == sorted_hand_from_suit(gs.player_hand, "H")
    IN  IF trick_cards_in_suit = <<>> THEN Chose(valid_moves[1])
        ELSE IF can_follow_suit
        THEN (IF should_take_trick THEN Chose(Last(sorted_hand))
              ELSE IF sorted_hand_lower_than_highest # <<>>
              THEN Chose(Last(sorted_hand_lower_than_highest))
              ELSE Chose(Last(sorted_hand)))
        ELSE IF queens # <<>> THEN Chose(queens[1])
        ELSE IF sorted_hearts # <<>> THEN Chose(Last(sorted_hearts))
        ELSE Chose(valid_moves[1])

\* the card the policy picks before it is verified against valid_moves
MyChosenCard(valid_moves, gs) ==
    IF TrickIsFirstCard(gs.current_trick) THEN MyLead(gs) ELSE MyFollow(gs, valid_moves)

\* faulty variant: the chosen card is returned without the check
MyVerify_unchecked(valid_moves, chosen_card) == chosen_card

\* if valid_moves.contains(&chosen_card) { chosen_card } else { valid_moves[0] }
MyVerify(valid_moves, chosen_card) ==
    IF \E k \in 1 .. Len(valid_moves) : valid_moves[k] = chosen_card
    THEN chosen_card
    ELSE valid_moves[1]

\* Option<GameState>::None
NoGameState == [is_some |-> FALSE, previous_tricks |-> <<>>, current_trick |-> TrickNew,
                player_hand |-> <<>>]

\* first card of the first trick with the Two of Clubs among the valid moves
MyOpensWithTwoOfClubs(valid_moves, gs) ==
    /\ TrickIsFirstCard(gs.current_trick)
    /\ gs.previous_tricks = <<>>
    /\ SelectSeq(valid_moves, is_two_of_clubs) # <<>>

\* MyStrategy::choose_card(valid_moves, game_state)
MyChoose(valid_moves, game_state) ==
    IF ~game_state.is_some THEN Chose(valid_moves[1])
    ELSE IF MyOpensWithTwoOfClubs(valid_moves, game_state)
    THEN Chose(SelectSeq(valid_moves, is_two_of_clubs)[1])
    ELSE IF MyChosenCard(valid_moves, game_state).panicked THEN Panicked
    ELSE Chose(MyVerify(valid_moves, MyChosenCard(valid_moves, game_state).card))

\* ------------------------------------------------ Strategy::choose_card
\* a current trick: the cards put so far, from first_player_index on
TrickOf(first_player_index, cards) ==
    [cards |-> [p \in Seats |->
                  IF ((p - first_player_index) % NumPlayers) + 1 <= Len(cards)
                  THEN cards[((p - first_player_index) % NumPlayers) + 1]
                  ELSE NoCard],
     first_player_index |-> first_player_index]

\* histories of completed tricks, as far as the policies read them (their cards):
\* none, one trick of clubs, a club trick with a diamond discarded, eight clubs played,
\* the Queen of Spades played
PreviousTricksPool ==
    { <<>>,
      <<[cards |-> <<Card("C", 3), Card("C", 4), Card("C", 5), Card("D", 5)>>]>>,
      <<[cards |-> <<Card("C", 3), Card("C", 4), Card("C", 5), Card("C", 6)>>]>>,
      <<[cards |-> <<Card("C", 3), Card("C", 4), Card("C", 5), Card("C", 6)>>],
        [cards |-> <<Card("C", 7), Card("C", 8), Card("C", 9), Card("C", 10)>>]>>,
      <<[cards |-> <<Card("S", 5), Card("S", QueenRank), Card("S", 6), Card("D", 5)>>]>> }

\* current tricks: leading, or following a club, two hearts, a high spade, a diamond
CurrentTrickPool ==
    { TrickNew,
      TrickOf(1, <<Card("C", 11)>>),
      TrickOf(2, <<Card("H", 5), Card("H", 9)>>),
      TrickOf(0, <<Card("S", 13), Card("D", 6)>>),
      TrickOf(3, <<Card("D", 7)>>) }

\* Some(GameState) for a hand: no card lies both in the hand and on the table
GameStates(hand) ==
    {gs \in [is_some : {TRUE}, previous_tricks : PreviousTricksPool,
              current_trick : CurrentTrickPool, player_hand : {hand}] :
        (Range(PreviousCards(gs.previous_tricks)) \cup Range(SlotCards(gs.current_trick)))
            \cap Range(hand) = {}}

\* the non-empty sub-sequences of a hand: the legal-move sets it can give
ValidMovesOf(hand) ==
    {SelectSeq(hand, LAMBDA c : c \in S) : S \in (SUBSET Range(hand)) \ {{}}}

\* the outcomes of the request to the prediction service: no answer (the request
\* failed), an answer that does not parse, or a prediction naming a card
Responses(hand) ==
    {[kind |-> k, card |-> NoCard] : k \in {"request_failed", "unparseable"}}
        \cup {[kind |-> "prediction", card |-> c] :
                 c \in Range(hand) \cup {Card("D", TwoRank), Card("H", MaxRank)}}

\* no request was made
NoResponse == [kind |-> "None", card |-> NoCard]

\* a strategy object is about to be asked for a card
InitStrategy ==
    /\ NoGame
    /\ pc = "strategy"
    /\ current_trick = TrickNew
    /\ decks = <<>>
    /\ \E hand \in HandsUpTo(TricksPerGame) :
       \E valid_moves \in ValidMovesOf(hand) :
       \E game_state \in GameStates(hand) \cup {NoGameState} :
          call = [op |-> "choose_card", done |-> FALSE, strategy |-> "None",
                  valid_moves |-> valid_moves, game_state |-> game_state,
                  response |-> NoResponse, chosen_card |-> NoCard, ret |-> Panicked]

StrategyCall(strategy, response, chosen_card, ret) ==
    /\ pc = "strategy" /\ ~call.done
    /\ call' = [call EXCEPT !.done = TRUE, !.strategy = strategy, !.response = response,
                            !.chosen_card = chosen_card, !.ret = ret]
    /\ UNCHANGED <<game_vars, current_trick, decks>>

\* Strategy::Random: valid_moves.choose(&mut rng), any of the valid moves
CallRandom ==
    \E k \in 1 .. Len(call.valid_moves) :
        StrategyCall("Random", NoResponse, NoCard, Chose(call.valid_moves[k]))

\* Strategy::AvoidPoints
CallAvoidPoints ==
    StrategyCall("AvoidPoints", NoResponse, NoCard, AvoidPointsChoose(call.valid_moves))

\* Strategy::Aggressive
CallAggressive ==
    StrategyCall("Aggressive", NoResponse, NoCard, AggressiveChoose(call.valid_moves))

\* Strategy::AI of game-core-rs
CallAIRs ==
    /\ call.game_state.is_some
    /\ \E response \in Responses(call.game_state.player_hand) :
          StrategyCall("AIRs", response, NoCard, AIChooseRs(call.valid_moves, response))

\* AIStrategy of game-core
CallAICore ==
    /\ call.game_state.is_some
    /\ \E response \in Responses(call.game_state.player_hand) :
          StrategyCall("AICore", response, NoCard, AIChooseCore(call.valid_moves, response))

\* Strategy::My
CallMy ==
    StrategyCall("My", NoResponse,
                 IF call.game_state.is_some
                    /\ ~MyOpensWithTwoOfClubs(call.valid_moves, call.game_state)
                    /\ ~MyChosenCard(call.valid_moves, call.game_state).panicked
                 THEN MyChosenCard(call.valid_moves, call.game_state).card
                 ELSE NoCard,
                 MyChoose(call.valid_moves, call.game_state))

NextStrategy ==
    \/ CallRandom
    \/ CallAvoidPoints
    \/ CallAggressive
    \/ CallAIRs
    \/ CallAICore
    \/ CallMy

SpecStrategy == InitStrategy /\ [][NextStrategy]_vars

\* C26: whenever choose_card of any variant returns, the card it returns is one of the
\* valid moves it was given; and when the card MyStrategy chose is not a valid move,
\* the first valid move is returned
C26_ChoiceIsLegalMove ==
    (pc = "strategy" /\ call.done /\ ~call.ret.panicked) =>
        /\ call.ret.card \in Range(call.valid_moves)
        /\ (call.strategy = "My" /\ call.chosen_card # NoCard
                /\ call.chosen_card \notin Range(call.valid_moves))
             => call.ret.card = call.valid_moves[1]

\* MyStrategy chose a card of the hand that is not a valid move and the first valid
\* move, another card, came back
C26_Witness ==
    /\ pc = "strategy" /\ call.done /\ call.strategy = "My"
    /\ call.chosen_card # NoCard
    /\ call.chosen_card \notin Range(call.valid_moves)
    /\ call.ret = Chose(call.valid_moves[1])
    /\ Len(call.valid_moves) > 1

\* a Heart or the Queen of Spades
PenaltyCard(c) == c.suit = "H" \/ (c.suit = "S" /\ c.rank = QueenRank)

\* rank for a card without penalty, rank + 13 for a penalty card
RankOrRankPlus13(c) == IF PenaltyCard(c) THEN c.rank + 13 ELSE c.rank

\* C27: AvoidPoints returns a valid move of minimal key (rank, or rank + 13 for a
\* penalty card), and never a penalty card when a card without penalty is valid
C27_AvoidPointsMinimisesKey ==
    (pc = "strategy" /\ call.done /\ call.strategy = "AvoidPoints") =>
        /\ ~call.ret.panicked
        /\ call.ret.card \in Range(call.valid_moves)
        /\ \A c \in Range(call.valid_moves) :
              RankOrRankPlus13(call.ret.card) <= RankOrRankPlus13(c)
        /\ (\E c \in Range(call.valid_moves) : ~PenaltyCard(c))
             => ~PenaltyCard(call.ret.card)

\* AvoidPoints passed over a penalty card of lower rank for a card without penalty
C27_Witness ==
    /\ pc = "strategy" /\ call.done /\ call.strategy = "AvoidPoints"
    /\ ~PenaltyCard(call.ret.card)
    /\ \E c \in Range(call.valid_moves) : PenaltyCard(c) /\ c.rank < call.ret.card.rank

\* C28: Aggressive returns a valid move of maximal key (rank, or rank + 13 for a
\* penalty card), and a penalty card whenever one is valid
C28_AggressiveMaximisesKey ==
    (pc = "strategy" /\ call.done /\ call.strategy = "Aggressive") =>
        /\ ~call.ret.panicked
        /\ call.ret.card \in Range(call.valid_moves)
        /\ \A c \in Range(call.valid_moves) :
              RankOrRankPlus13(c) <= RankOrRankPlus13(call.ret.card)
        /\ (\E c \in Range(call.valid_moves) : PenaltyCard(c))
             => PenaltyCard(call.ret.card)

\* Aggressive passed over a card without penalty of higher rank for a penalty card
C28_Witness ==
    /\ pc = "strategy" /\ call.done /\ call.strategy = "Aggressive"
    /\ PenaltyCard(call.ret.card)
    /\ \E c \in Range(call.valid_moves) : ~PenaltyCard(c) /\ c.rank > call.ret.card.rank

\* C29: when the request to the prediction service fails, its response does not parse
\* or it names a card that is not a valid move, AIStrategy::choose_card ends in a
\* panic and returns no card
C29_PredictorFailureIsFatal ==
    (/\ pc = "strategy" /\ call.done /\ call.strategy \in {"AIRs", "AICore"}
     /\ \/ call.response.kind \in {"request_failed", "unparseable"}
        \/ call.response.card \notin Range(call.valid_moves))
        => call.ret.panicked

\* ------------------------------- new_with_strategies(player_configs, ..)
\* the numbers of player configurations a caller can pass
MaxConfigs == NumPlayers + 1

\* player_configs.iter().zip(hands.into_iter()): one player per pair, as many as the
\* shorter of the two; the game object is built for any number of configurations
InitConfig ==
    \E num_configs \in 0 .. MaxConfigs : \E seed \in 1 .. NumShuffles :
        LET dealt == Deal(DeckNew(seed), NumPlayers)
            zipped == IF num_configs < NumPlayers THEN num_configs ELSE NumPlayers
            ps == [p \in 0 .. (zipped - 1) |-> [hand |-> dealt[p], score |-> 0]]
        IN  /\ impl = "core"
            /\ hands = dealt
            /\ players = ps
            /\ hearts_broken = FALSE
            /\ current_leader = find_starting_player(ps)
            /\ tricks = <<>>
            /\ trick_cards = <<>>
            /\ lead_suit = None
            /\ current_player = find_starting_player(ps)
            /\ i = 0
            /\ scores = [p \in Seats |-> 0]
            /\ game_tricks = <<>>
            /\ trick_count = 0
            /\ result = None
            /\ pc = "play_trick"
            /\ call = [op |-> "new_with_strategies", done |-> TRUE,
                       player_configs |-> num_configs]
            /\ current_trick = TrickNew
            /\ decks = <<>>

\* play_trick: self.players[current_player] with a player at that index
ConfigPlayCard ==
    /\ current_player \in DOMAIN players
    /\ CorePlayCard

\* play_trick: self.players[current_player] without a player at that index panics
\* (index out of bounds)
ConfigIndexPanic ==
    /\ impl = "core" /\ pc = "play_trick" /\ i < NumPlayers
    /\ current_player \notin DOMAIN players
    /\ pc' = "panic"
    /\ UNCHANGED <<impl, hands, players, hearts_broken, current_leader, tricks,
                   trick_cards, lead_suit, current_player, i, scores, game_tricks,
                   trick_count, result, call, current_trick, decks>>

NextConfig ==
    \/ ConfigPlayCard
    \/ ConfigIndexPanic
    \/ CoreResolveTrick
    \/ CoreFinish

SpecConfig == InitConfig /\ [][NextConfig]_vars

\* C30: a game given a number of player configurations other than four plays no card,
\* changes no hand and returns no result
C30_WrongPlayerCountRejected ==
    (call.op = "new_with_strategies" /\ call.player_configs # NumPlayers) =>
        /\ trick_cards = <<>> /\ game_tricks = <<>>
        /\ \A p \in DOMAIN players : players[p].hand = hands[p]
        /\ pc # "done"

\* MyStrategy has answered for a seat that follows in a trick
MyFollowed ==
    /\ pc = "strategy" /\ call.done /\ call.strategy = "My"
    /\ call.game_state.is_some
    /\ ~TrickIsFirstCard(call.game_state.current_trick)

\* the valid moves of a seat that cannot follow suit: its whole hand, or, in the first
\* trick, its cards without penalty when it has any
VoidValidMoves(hand) ==
    {hand} \cup ({SelectSeq(hand, LAMBDA c : ~PenaltyCard(c))} \ {<<>>})

\* the Heart of highest rank in a hand that holds a Heart
HighestHeart(hand) ==
    CHOOSE c \in Range(hand) :
        c.suit = "H" /\ \A d \in Range(hand) : d.suit = "H" => d.rank <= c.rank

C31_WitnessQueen ==
    /\ MyFollowed
    /\ ~HoldsSuit(call.game_state.player_hand,
                  TrickLeadSuitOrClubs(call.game_state.current_trick))
    /\ call.valid_moves = call.game_state.player_hand
    /\ HoldsSuit(call.game_state.player_hand, "H")
    /\ call.ret = Chose(Card("S", QueenRank))

\* the cards of a suit seen by the seat: in its hand, in completed tricks, in the trick
CardsSeen(gs, suit) ==
    {c \in Range(gs.player_hand) \cup Range(PreviousCards(gs.previous_tricks))
           \cup Range(SlotCards(gs.current_trick)) : c.suit = suit}

\* the card of highest rank among the cards of a non-empty set of one suit
HighestOf(cards) == CHOOSE c \in cards : \A d \in cards : d.rank <= c.rank

\* C32: following with a card of the led suit, MyStrategy plays its highest card of
\* that suit when the trick holds no points, fewer than 7 cards of the suit have been
\* seen and the suit is not excluded (Hearts always, Spades until the Queen of Spades
\* lies in a completed trick); otherwise its highest card of the suit below the highest
\* card of the suit in the trick, or its highest card of the suit when none is lower
C32_FollowTakesOrDucks ==
    LET gs == call.game_state
        lead == TrickLeadSuitOrClubs(gs.current_trick)
        in_suit == {c \in Range(gs.player_hand) : c.suit = lead}
        in_trick == {c \in Range(SlotCards(gs.current_trick)) : c.suit = lead}
        lower == {c \in in_suit : c.rank < HighestOf(in_trick).rank}
        take == /\ \A c \in Range(SlotCards(gs.current_trick)) : ~PenaltyCard(c)
                /\ Cardinality(CardsSeen(gs, lead)) < 7
                /\ lead # "H"
                /\ lead = "S" =>
                      Card("S", QueenRank) \in Range(PreviousCards(gs.previous_tricks))
    IN  (/\ MyFollowed
         /\ HoldsSuit(gs.player_hand, lead)
         /\ call.valid_moves = SelectSeq(gs.player_hand, LAMBDA c : c.suit = lead))
            => call.ret = Chose(IF take THEN HighestOf(in_suit)
                                ELSE IF lower # {} THEN HighestOf(lower)
                                ELSE HighestOf(in_suit))

\* following a spade lead while the Queen of Spades is not out, the seat ducked under
\* the highest spade of the trick although it holds a higher one
C32_Witness ==
    /\ MyFollowed
    /\ TrickLeadSuitOrClubs(call.game_state.current_trick) = "S"
    /\ call.valid_moves =
          SelectSeq(call.game_state.player_hand, LAMBDA c : c.suit = "S")
    /\ \A c \in Range(SlotCards(call.game_state.current_trick)) : ~PenaltyCard(c)
    /\ \E c \in Range(call.valid_moves) : c.rank > call.ret.card.rank
    /\ \E c \in Range(SlotCards(call.game_state.current_trick)) :
          c.suit = "S" /\ c.rank > call.ret.card.rank

\* following a diamond lead in a trick without points, the seat played its highest
\* diamond over a lower one
C32_WitnessTake ==
    /\ MyFollowed
    /\ TrickLeadSuitOrClubs(call.game_state.current_trick) = "D"
    /\ call.valid_moves =
          SelectSeq(call.game_state.player_hand, LAMBDA c : c.suit = "D")
    /\ Len(call.valid_moves) > 1
    /\ \A c \in Range(call.valid_moves) : c.rank <= call.ret.card.rank
    /\ \E c \in Range(SlotCards(call.game_state.current_trick)) :
          c.suit = "D" /\ c.rank < call.ret.card.rank

\* MyStrategy has answered for a seat that leads a trick, not with the opening Two of
\* Clubs, while the Queen of Spades lies in no completed trick
MyLedBeforeQueen ==
    /\ pc = "strategy" /\ call.done /\ call.strategy = "My"
    /\ call.game_state.is_some
    /\ TrickIsFirstCard(call.game_state.current_trick)
    /\ ~MyOpensWithTwoOfClubs(call.valid_moves, call.game_state)
    /\ Card("S", QueenRank) \notin Range(PreviousCards(call.game_state.previous_tricks))

\* C33: leading while the Queen of Spades lies in no completed trick, MyStrategy does
\* not lead a Spade when its valid moves (its hand, or its hand without Hearts) hold a
\* Club or a Diamond
C33_NoSpadeLeadBeforeQueen ==
    (/\ MyLedBeforeQueen
     /\ call.valid_moves \in
            {call.game_state.player_hand,
             SelectSeq(call.game_state.player_hand, LAMBDA c : c.suit # "H")}
     /\ \E c \in Range(call.valid_moves) : c.suit \in {"C", "D"})
        => call.ret.card.suit # "S"

\* ------------------------------------------------------- GameMovesFilter
\* ordered_scores.sort(): ascending insertion
RECURSIVE InsertScore(_, _)
InsertScore(x, sorted) ==
    IF sorted = <<>> THEN <<x>>
    ELSE IF x <= Head(sorted) THEN <<x>> \o sorted
    ELSE <<Head(sorted)>> \o InsertScore(x, Tail(sorted))

\* faulty variant: the scores are left in seat order
SortScores_unsorted(player_scores) == [k \in 1 .. NumPlayers |-> player_scores[k - 1]]

RECURSIVE SortScoresFrom(_, _)
SortScoresFrom(player_scores, p) ==
    IF p >= NumPlayers THEN <<>>
    ELSE InsertScore(player_scores[p], SortScoresFrom(player_scores, p + 1))

\* players.iter().map(|p| p.score).collect(), sorted
SortScores(player_scores) == SortScoresFrom(player_scores, 0)

\* threshold = ordered_scores[0] + (ordered_scores[1] - ordered_scores[0]) * 1.25 in
\* f32, which holds every multiple of a quarter in this range exactly: the value is
\* kept in quarters
ThresholdQuarters(player_scores) ==
    LET ordered_scores == SortScores(player_scores)
    IN  4 * ordered_scores[1] + (ordered_scores[2] - ordered_scores[1]) * 5

\* GameMovesFilter::new: the seats with score <= threshold, in seat order
GoodPlayers(player_scores) ==
    SelectSeq([k \in 1 .. NumPlayers |-> k - 1],
              LAMBDA p : 4 * player_scores[p] <= ThresholdQuarters(player_scores))

\* GameMovesFilter::filter
FilterKeeps(good_players, player_index, trick) ==
    /\ \E k \in 1 .. Len(good_players) : good_players[k] = player_index
    /\ (trick.points <= 1 \/ trick.winner # player_index)

\* a completed game with its final scores, before the filter is built
InitFilter ==
    /\ NoGame
    /\ pc = "filter"
    /\ current_trick = TrickNew
    /\ decks = <<>>
    /\ \E player_scores \in [Seats -> 0 .. MaxScore] :
          call = [op |-> "new", done |-> FALSE, player_scores |-> player_scores,
                  good_players |-> <<>>, player_index |-> 0,
                  trick |-> [winner |-> 0, points |-> 0], kept |-> FALSE]

\* GameMovesFilter::new(&completed_game)
GameMovesFilterNew ==
    /\ pc = "filter" /\ call.op = "new" /\ ~call.done
    /\ call' = [call EXCEPT !.done = TRUE,
                            !.good_players = GoodPlayers(call.player_scores)]
    /\ UNCHANGED <<game_vars, current_trick, decks>>

\* filter.filter(player_index, &trick) for a seat and a completed trick
GameMovesFilterFilter ==
    /\ pc = "filter" /\ call.op = "new" /\ call.done
    /\ \E player_index \in Seats : \E winner \in Seats : \E points \in 0 .. 2 :
          call' = [call EXCEPT
                     !.op = "filter",
                     !.player_index = player_index,
                     !.trick = [winner |-> winner, points |-> points],
                     !.kept = FilterKeeps(call.good_players, player_index,
                                          [winner |-> winner, points |-> points])]
    /\ UNCHANGED <<game_vars, current_trick, decks>>

NextFilter ==
    \/ GameMovesFilterNew
    \/ GameMovesFilterFilter

SpecFilter == InitFilter /\ [][NextFilter]_vars

\* the lowest final score
LowestScore(player_scores) ==
    CHOOSE x \in {player_scores[p] : p \in Seats} : \A q \in Seats : x <= player_scores[q]

\* the second lowest final score, equal to the lowest when two seats share it
SecondLowestScore(player_scores) ==
    LET first == CHOOSE p \in Seats : player_scores[p] = LowestScore(player_scores)
    IN  CHOOSE x \in {player_scores[q] : q \in Seats \ {first}} :
            \A q \in Seats \ {first} : x <= player_scores[q]

\* C34: the good players are exactly the seats with 4 * score <= 5 * s1 - s0 for the two
\* lowest final scores s0 <= s1, listed in ascending seat order, and the seats holding
\* the two lowest scores are among them
C34_GoodPlayersWithinThreshold ==
    (pc = "filter" /\ call.done) =>
        LET s0 == LowestScore(call.player_scores)
            s1 == SecondLowestScore(call.player_scores)
        IN  /\ Range(call.good_players) =
                  {p \in Seats : 4 * call.player_scores[p] <= 5 * s1 - s0}
            /\ \A j, k \in 1 .. Len(call.good_players) :
                  j < k => call.good_players[j] < call.good_players[k]
            /\ \A p \in Seats :
                  call.player_scores[p] <= s1 => p \in Range(call.good_players)

\* scores out of seat order: seat 0 has the highest score, seats 1 and 3 the two lowest,
\* and seat 2, above the threshold, is left out
C34_Witness ==
    /\ pc = "filter" /\ call.done
    /\ call.good_players = <<1, 3>>
    /\ call.player_scores[1] < call.player_scores[3]
    /\ call.player_scores[3] < call.player_scores[2]
    /\ call.player_scores[2] < call.player_scores[0]

\* a third seat just inside the threshold is a good player as well
C34_WitnessThird ==
    /\ pc = "filter" /\ call.done
    /\ Len(call.good_players) = 3
    /\ \E p \in Range(call.good_players) :
          call.player_scores[p] > SecondLowestScore(call.player_scores)

\* C35: filter keeps a move of a seat in a trick only if the seat is a good player and
\* did not both win the trick and take points in it
C35_FilterKeepsCleanGoodMoves ==
    (pc = "filter" /\ call.op = "filter" /\ call.kept) =>
        /\ call.player_index \in Range(call.good_players)
        /\ ~(call.trick.winner = call.player_index /\ call.trick.points > 0)

\* ------------------------------------------------- extract_training_data
\* the finished game as a CompletedHeartsGame: the initial hands and the tricks, each
\* with its cards in seat order
CompletedGame ==
    [initial_hands |-> hands,
     tricks |-> [t \in 1 .. Len(result.tricks) |->
                   [cards |-> [k \in 1 .. NumPlayers |->
                                 LET tc == CHOOSE x \in Range(result.tricks[t].cards) :
                                               x.player_index = k - 1
                                 IN  tc.card],
                    first_player |-> result.tricks[t].cards[1].player_index,
                    winner |-> result.tricks[t].winner,
                    points |-> result.tricks[t].points]]]

\* hands[player_index] after the cards of the first n tricks have been removed from it:
\* position(|c| c == trick_card).unwrap(), then remove(card_idx)
RECURSIVE HandAfter(_, _, _)
HandAfter(game, player_index, n) ==
    IF n = 0 THEN game.initial_hands[player_index]
    ELSE LET hand == HandAfter(game, player_index, n - 1)
             trick_card == game.tricks[n].cards[player_index + 1]
             card_idx == CHOOSE k \in 1 .. Len(hand) :
                            hand[k] = trick_card /\ \A j \in 1 .. (k - 1) : hand[j] # trick_card
         IN  SubSeq(hand, 1, card_idx - 1) \o SubSeq(hand, card_idx + 1, Len(hand))

\* the CompactTrainingData pushed for the card at index player_index of trick n
TrainingItem(game, n, player_index) ==
    [previous_tricks |-> SubSeq(game.tricks, 1, n - 1),
     current_trick |-> [cards |-> game.tricks[n].cards,
                        first_player |-> game.tricks[n].first_player],
     current_player_index |-> player_index,
     player_hand |-> HandAfter(game, player_index, n),
     played_card |-> game.tricks[n].cards[player_index + 1]]

\* extract_training_data(&game_result): one item per trick and card index, in order
ExtractTrainingData ==
    /\ pc = "done" /\ call = NoCall
    /\ call' = [op |-> "extract_training_data", done |-> TRUE,
                training_data |->
                   [k \in 1 .. (Len(CompletedGame.tricks) * NumPlayers) |->
                       TrainingItem(CompletedGame, ((k - 1) \div NumPlayers) + 1,
                                    (k - 1) % NumPlayers)]]
    /\ UNCHANGED <<game_vars, current_trick, decks>>

NextTraining ==
    \/ Next
    \/ ExtractTrainingData

SpecTraining == Init /\ [][NextTraining]_vars

\* the cards the seats played in trick t of the finished game before seat p played
PlayedEarlier(t, p) ==
    LET cards == result.tricks[t].cards
        at == CHOOSE k \in 1 .. Len(cards) : cards[k].player_index = p
    IN  {cards[j].card : j \in 1 .. (at - 1)}

\* C36: every training example holds the hand of the acting seat as it was before the
\* play, the played card included, a current trick of exactly the cards played earlier
\* in that trick, and exactly the tricks completed before it
C36_ExampleShowsStateBeforePlay ==
    (call.op = "extract_training_data") =>
        \A k \in 1 .. Len(call.training_data) :
            LET item == call.training_data[k]
                t == Len(item.previous_tricks) + 1
            IN  /\ t = ((k - 1) \div NumPlayers) + 1
                /\ item.played_card \in Range(item.player_hand)
                /\ Range(item.current_trick.cards) =
                      PlayedEarlier(t, item.current_player_index)

TrickIsCompleted_any(t) == \E p \in Seats : t.cards[p] # NoCard

\* Trick::is_completed: every slot holds a card
TrickIsCompleted(t) == \A p \in Seats : t.cards[p] # NoCard

\* Trick::lead_suit: first_card().map(|c| c.suit)
TrickLeadSuit(t) ==
    IF t.cards[t.first_player_index] = NoCard THEN None
    ELSE t.cards[t.first_player_index].suit

\* the seats whose slot of the trick holds a card
FilledSlots(t) == {p \in Seats : t.cards[p] # NoCard}

\* C38: is_first_card() holds exactly when no slot is filled; is_completed() holds
\* exactly when all four slots are filled and becomes true only when the fourth seat
\* plays; lead_suit() is absent until the leader's slot is filled, is then the suit of
\* the card in that slot, and is not changed by a card put into another slot
C38_TrickQueriesFollowSlots ==
    /\ [](TrickIsFirstCard(current_trick) <=> Cardinality(FilledSlots(current_trick)) = 0)
    /\ [](TrickIsCompleted(current_trick)
            <=> Cardinality(FilledSlots(current_trick)) = NumPlayers)
    /\ [](TrickLeadSuit(current_trick) = None
            <=> current_trick.first_player_index \notin FilledSlots(current_trick))
    /\ [][(TrickIsCompleted(current_trick') /\ ~TrickIsCompleted(current_trick))
            => /\ Cardinality(FilledSlots(current_trick)) = NumPlayers - 1
               /\ call'.player_index \notin FilledSlots(current_trick)]_vars
    /\ [][(call'.player_index # current_trick.first_player_index)
            => TrickLeadSuit(current_trick') = TrickLeadSuit(current_trick)]_vars

\* a completed trick led by a seat other than 0, whose lead suit is the suit of the
\* leader's card and not that of the card in slot 0
C38_Witness ==
    /\ pc = "trick"
    /\ TrickIsCompleted(current_trick)
    /\ current_trick.first_player_index # 0
    /\ TrickLeadSuit(current_trick) =
          current_trick.cards[current_trick.first_player_index].suit
    /\ TrickLeadSuit(current_trick) # current_trick.cards[0].suit

\* ------------------------------ a block of deal-reuse games, 52-card deck
\* Deck::new before the shuffle with all thirteen ranks: suits in SuitOrder, 2..=14
AllNewCards ==
    [k \in 1 .. (Len(SuitOrder) * (MaxRank - MinRank + 1)) |->
        Card(SuitOrder[((k - 1) \div (MaxRank - MinRank + 1)) + 1],
             MinRank + ((k - 1) % (MaxRank - MinRank + 1)))]

\* current_deck.rotate(13)
HandRotation == 13

\* the first game of a block: Deck::new(None), dealt to the four seats
InitReuse ==
    /\ NoGame
    /\ pc = "reuse"
    /\ current_trick = TrickNew
    /\ decks = <<>>
    /\ \E thread_rng \in ThreadRng :
          LET deck == DeckRsShuffle(AllNewCards, NoSeed, thread_rng)
          IN  call = [op |-> "reuse", done |-> FALSE, game_index |-> 0,
                      current_deck |-> deck,
                      dealt |-> <<Deal(deck, NumPlayers)>>]

\* the next game of the block: the deck rotated, then dealt to the four seats
ReuseNextGame ==
    /\ pc = "reuse"
    /\ ~NextDeckIsNew(call.game_index + 1)
    /\ call' = [call EXCEPT
                   !.game_index = @ + 1,
                   !.current_deck = rotate_left(@, HandRotation),
                   !.dealt = Append(@, Deal(rotate_left(call.current_deck, HandRotation),
                                            NumPlayers))]
    /\ UNCHANGED <<game_vars, current_trick, decks>>

NextReuse == ReuseNextGame

SpecReuse == InitReuse /\ [][NextReuse]_vars

\* C39: dealing the 52-card deck rotated left by 13 gives seat p the hand seat
\* (p + 1) mod 4 had from the deck before the rotation; so in a block of four games
\* the same four hands are used and every seat holds each of them exactly once
C39_RotationPassesHandsAround ==
    (pc = "reuse") =>
        /\ \A g \in 2 .. Len(call.dealt) : \A p \in Seats :
              call.dealt[g][p] = call.dealt[g - 1][(p + 1) % NumPlayers]
        /\ \A g \in 1 .. Len(call.dealt) :
              {call.dealt[g][p] : p \in Seats} = {call.dealt[1][p] : p \in Seats}
        /\ Len(call.dealt) = 4 =>
              \A p \in Seats :
                  Cardinality({call.dealt[g][p] : g \in 1 .. 4}) = 4

\* the fourth game of a block has been dealt: seat 0 holds the hand seat 3 began with
C39_Witness ==
    /\ pc = "reuse"
    /\ Len(call.dealt) = 4
    /\ Len(call.current_deck) = 52
    /\ call.dealt[4][0] = call.dealt[1][3]
    /\ call.dealt[4][0] # call.dealt[1][0]

\* the seat about to play in a running game
SeatToPlay == IF impl = "core" THEN current_player ELSE SimPlayerIndex

\* C40: in every state of a game in which a seat is about to play, get_valid_moves of
\* game-core and of game-simulation give the same moves for that seat's hand, the lead
\* suit, the position, the tricks completed so far and hearts_broken
C40_SameLegalMovesInBothGames ==
    (pc = "play_trick" /\ i < NumPlayers) =>
        GetValidMovesCore(tricks, hearts_broken, players[SeatToPlay].hand,
                          lead_suit, i = 0)
        = GetValidMovesSim(CompletedTricks, hearts_broken, players[SeatToPlay].hand,
                           lead_suit, i = 0)

====
